---------------------------- MODULE Spec2Model ----------------------------
(***************************************************************************)
(* A model of the quiz web application: the Credential Store (identities), *)
(* the Quiz Store, the Joi validators, the authenticate / optionalAuth     *)
(* middleware, the error handler and the controllers behind the /resource, *)
(* /register and /users/profile routes.                                    *)
(*                                                                         *)
(* A string is a sequence of one-character strings, so that length, trim   *)
(* and character-class rules are computed and not assumed.  A request body *)
(* is a record that holds exactly the fields the client supplied: a field  *)
(* the code reads as `undefined` is a field outside DOMAIN body.           *)
(*                                                                         *)
(* `last` is the request the latest step worked on and the response that   *)
(* step sent (status 0: the step sent none, the handler is suspended at an *)
(* await).  Every step of every handler overwrites it, so in each state it *)
(* describes the step that led to that state.                              *)
(***************************************************************************)
EXTENDS Integers, Sequences, FiniteSets, TLC

VARIABLES users,       \* Credential Store: identity id -> identity record
          nextUserId,  \* the id the store gives the next identity
          quizzes,     \* Quiz Store: quiz id -> quiz document
          nextQuizId,  \* the id the store gives the next quiz
          now,         \* the clock read by Date.now / new Date()
          slot,        \* handlers suspended at an await, with their locals
          last,        \* the latest step's request and response
          trace,       \* the latest step's middleware, controller and store calls
          notifier     \* the mail transport, the sends in flight and their outcomes

vars == <<users, nextUserId, quizzes, nextQuizId, now, slot, last, trace, notifier>>

----------------------------------------------------------------------------
(* Bounds of the model *)

\* Quiz ids the Quiz Store can hand out (ids are never reused).
MaxQuizzes == 2
\* Identity ids the Credential Store can hand out.
MaxUsers == 3
\* The last instant of the clock.
MaxTime == 1

Slots == {"h1", "h2"}

----------------------------------------------------------------------------
(* Program constants *)

TitleMin == 3
TitleMax == 100
DescriptionMax == 500
TextMax == 500
OptionMax == 200
OptionsMin == 2
OptionsMax == 6
CorrectIndexMax == 5
QuestionsMax == 100
UsernameMin == 3
UsernameMax == 30
EmailMax == 254
PasswordMin == 8
PasswordMax == 128

----------------------------------------------------------------------------
(* Strings *)

Letters == {"a", "b", "c", "d", "e", "l", "i", "o", "x", "t", "h", "s", "w", "r"}
Capitals == {"A", "B", "G", "M", "P", "Q"}
Digits == {"0", "1", "2"}

RECURSIVE Repeat(_, _)
Repeat(c, n) == IF n = 0 THEN <<>> ELSE <<c>> \o Repeat(c, n - 1)

\* Mutant of IsTrimmed: trim() as a conversion, which rejects nothing.
IsTrimmed_Converts(s) == TRUE

\* Joi's trim() under strict(): a rule, not a conversion. The value must
\* carry no leading or trailing whitespace.
IsTrimmed(s) == s = <<>> \/ (s[1] # " " /\ s[Len(s)] # " ")

\* Joi.string().trim().min(lo).max(hi).strict(); the empty string is
\* rejected by Joi.string() unless allowed.
StringOk(s, lo, hi, allowEmpty) ==
    IF s = <<>> THEN allowEmpty
    ELSE IsTrimmed(s) /\ Len(s) >= lo /\ Len(s) <= hi


RECURSIVE TrimLeft(_)
TrimLeft(s) == IF s # <<>> /\ s[1] = " " THEN TrimLeft(Tail(s)) ELSE s

RECURSIVE TrimRight(_)
TrimRight(s) ==
    IF s # <<>> /\ s[Len(s)] = " " THEN TrimRight(SubSeq(s, 1, Len(s) - 1)) ELSE s

\* Mongoose's `trim: true` setter: a conversion.
Trim(s) == TrimRight(TrimLeft(s))

----------------------------------------------------------------------------
(* Validator: the Joi schemas of the quiz resource *)

QuizFields == {"title", "description", "isPublic", "questions"}

\* questionSchema, its keys: text, options, correctIndex (all required).
QuestionKeysOk(q) ==
    /\ "text" \in DOMAIN q
    /\ StringOk(q.text, 1, TextMax, FALSE)
    /\ "options" \in DOMAIN q
    /\ Len(q.options) >= OptionsMin
    /\ Len(q.options) <= OptionsMax
    /\ \A i \in 1..Len(q.options) : StringOk(q.options[i], 1, OptionMax, FALSE)
    /\ "correctIndex" \in DOMAIN q
    /\ q.correctIndex >= 0
    /\ q.correctIndex <= CorrectIndexMax

\* questionSchema's custom rule; Joi runs an object's rules only when its
\* keys raised no error.
CorrectIndexInBounds(q) == q.correctIndex < Len(q.options)

QuestionOk(q) == QuestionKeysOk(q) /\ CorrectIndexInBounds(q)

\* Mutant of QuestionsOk: no upper bound on the number of questions.
QuestionsOk_NoMax(qs) ==
    /\ Len(qs) >= 1
    /\ \A i \in 1..Len(qs) : QuestionOk(qs[i])

\* questions: Joi.array().items(questionSchema).min(1).max(100)
QuestionsOk(qs) ==
    /\ Len(qs) >= 1
    /\ Len(qs) <= QuestionsMax
    /\ \A i \in 1..Len(qs) : QuestionOk(qs[i])

\* The fields of a create payload that violate createResourceSchema
\* (abortEarly: false reports all of them).
CreateResourceErrors(body) ==
    {f \in QuizFields :
        CASE f = "title" ->
                 \/ "title" \notin DOMAIN body
                 \/ ~StringOk(body.title, TitleMin, TitleMax, FALSE)
          [] f = "description" ->
                 /\ "description" \in DOMAIN body
                 /\ ~StringOk(body.description, 0, DescriptionMax, TRUE)
          [] f = "isPublic" -> FALSE
          [] f = "questions" ->
                 \/ "questions" \notin DOMAIN body
                 \/ ~QuestionsOk(body.questions)}

\* The violations of updateResourceSchema: every field optional, and
\* object.min(1) counted on the keys left after unknown ones are stripped.
UpdateResourceErrors(body) ==
    {f \in QuizFields :
        CASE f = "title" ->
                 /\ "title" \in DOMAIN body
                 /\ ~StringOk(body.title, TitleMin, TitleMax, FALSE)
          [] f = "description" ->
                 /\ "description" \in DOMAIN body
                 /\ ~StringOk(body.description, 0, DescriptionMax, TRUE)
          [] f = "isPublic" -> FALSE
          [] f = "questions" ->
                 /\ "questions" \in DOMAIN body
                 /\ ~QuestionsOk(body.questions)}
    \cup (IF DOMAIN body \cap QuizFields = {} THEN {"body"} ELSE {})

\* Mutant of StripUnknown: the payload kept with every key it carries.
StripUnknown_Keeps(body, known) == body

\* stripUnknown: the keys the schema does not name are removed.
StripUnknown(body, known) == [f \in (DOMAIN body \cap known) |-> body[f]]

\* The sanitized value of a valid create payload: unknown keys stripped,
\* defaults applied (description '', isPublic false).
CreateResourceValue(body) ==
    [title |-> body.title,
     description |-> IF "description" \in DOMAIN body THEN body.description ELSE <<>>,
     isPublic |-> IF "isPublic" \in DOMAIN body THEN body.isPublic ELSE FALSE,
     questions |-> body.questions]

\* The sanitized value of a valid update payload.
UpdateResourceValue(body) == StripUnknown(body, QuizFields)

\* idParamSchema: 24 hexadecimal characters. An id parameter is modelled by
\* a number: 0 stands for a string that is no ObjectId, n >= 1 for the n-th
\* ObjectId.
IdParamOk(id) == id >= 1

----------------------------------------------------------------------------
(* Quiz Store: the Mongoose schema *)

\* questionSchema of the model: options 2..6, correctIndex >= 0 and below
\* the option count, text required.
QuestionDocOk(q) ==
    /\ Trim(q.text) # <<>>
    /\ Len(q.options) >= 2
    /\ Len(q.options) <= 6
    /\ q.correctIndex >= 0
    /\ q.correctIndex < Len(q.options)

\* The paths of a quiz document that fail the Mongoose validators.
QuizDocErrors(doc) ==
    {f \in QuizFields :
        CASE f = "title" ->
                 "title" \in DOMAIN doc /\
                 (Len(Trim(doc.title)) < 3 \/ Len(Trim(doc.title)) > 100)
          [] f = "description" ->
                 "description" \in DOMAIN doc /\ Len(Trim(doc.description)) > 500
          [] f = "isPublic" -> FALSE
          [] f = "questions" ->
                 "questions" \in DOMAIN doc /\
                 (\/ Len(doc.questions) < 1
                  \/ \E i \in 1..Len(doc.questions) : ~QuestionDocOk(doc.questions[i]))}

\* The setters Mongoose applies when it casts a document or an update.
CastQuestion(q) == [text |-> Trim(q.text), options |-> q.options, correctIndex |-> q.correctIndex]

CastQuizFields(doc) ==
    [f \in DOMAIN doc |->
        CASE f = "title" -> Trim(doc[f])
          [] f = "description" -> Trim(doc[f])
          [] f = "questions" -> [i \in 1..Len(doc[f]) |-> CastQuestion(doc[f][i])]
          [] OTHER -> doc[f]]

----------------------------------------------------------------------------
(* Responses and errors *)

NoData == [kind |-> "none"]
NoBody == [kind |-> "none"]

Reply(rq, uid, status, error, data) ==
    [op |-> rq.op, token |-> rq.token, id |-> rq.id, body |-> rq.body,
     user |-> uid, status |-> status, error |-> error, data |-> data]

\* new AppError(message, statusCode)
AppError(message, statusCode) ==
    [name |-> "Error", statusCode |-> statusCode, code |-> 0, message |-> message]

\* The error Mongoose throws when a document fails its validators.
ValidationError ==
    [name |-> "ValidationError", statusCode |-> 0, code |-> 0, message |-> "Validation failed"]

\* The error the driver throws on a unique index violation (E11000).
DuplicateKeyError(field) ==
    [name |-> "MongoServerError", statusCode |-> 0, code |-> 11000, message |-> field]

\* err.name === 'CastError' && err.kind === 'ObjectId'
IsObjectIdCastError(err) ==
    err.name = "CastError" /\ "kind" \in DOMAIN err /\ err.kind = "ObjectId"

\* err.isJoi
IsJoi(err) == "isJoi" \in DOMAIN err /\ err.isJoi

\* Mutant of ErrorStatus: no override for the duplicate key error.
ErrorStatus_NoDuplicateKey(err) ==
    LET s0 == IF err.statusCode # 0 THEN err.statusCode ELSE 500
        s1 == IF err.name = "ValidationError" THEN 400 ELSE s0
        sc == IF IsObjectIdCastError(err) THEN 400 ELSE s1
        s3 == IF err.name = "JsonWebTokenError" THEN 401 ELSE sc
        s4 == IF err.name = "TokenExpiredError" THEN 401 ELSE s3
        s5 == IF IsJoi(err) THEN 400 ELSE s4
    IN  s5

\* Mutant of ErrorStatus: the status an error carries is not read.
ErrorStatus_IgnoresStatusCode(err) ==
    LET s0 == 500
        s1 == IF err.name = "ValidationError" THEN 400 ELSE s0
        sc == IF IsObjectIdCastError(err) THEN 400 ELSE s1
        s2 == IF err.code = 11000 THEN 400 ELSE sc
        s3 == IF err.name = "JsonWebTokenError" THEN 401 ELSE s2
        s4 == IF err.name = "TokenExpiredError" THEN 401 ELSE s3
        s5 == IF IsJoi(err) THEN 400 ELSE s4
    IN  s5

\* errorHandler, the status: err.statusCode || 500, then the overrides in
\* the order of the code.
ErrorStatus(err) ==
    LET s0 == IF err.statusCode # 0 THEN err.statusCode ELSE 500
        s1 == IF err.name = "ValidationError" THEN 400 ELSE s0
        sc == IF IsObjectIdCastError(err) THEN 400 ELSE s1
        s2 == IF err.code = 11000 THEN 400 ELSE sc
        s3 == IF err.name = "JsonWebTokenError" THEN 401 ELSE s2
        s4 == IF err.name = "TokenExpiredError" THEN 401 ELSE s3
        s5 == IF IsJoi(err) THEN 400 ELSE s4
    IN  s5

\* errorHandler, the message.
ErrorMessage(err) ==
    LET m0 == err.message
        m1 == IF err.name = "ValidationError" THEN "Mongoose validation messages" ELSE m0
        mc == IF IsObjectIdCastError(err) THEN "Invalid ID format." ELSE m1
        m2 == IF err.code = 11000
              THEN (IF err.message = "email" THEN "Email already exists."
                    ELSE "Username already exists.")
              ELSE mc
        m3 == IF err.name = "JsonWebTokenError" THEN "Invalid token." ELSE m2
        m4 == IF err.name = "TokenExpiredError" THEN "Token expired." ELSE m3
        m5 == IF IsJoi(err) THEN "Joi validation messages" ELSE m4
    IN  m5

\* asyncHandler passes a thrown error to errorHandler, which answers.
ErrorReply(rq, uid, err) == Reply(rq, uid, ErrorStatus(err), ErrorMessage(err), NoData)

----------------------------------------------------------------------------
(* Authenticator *)

NoToken == [kind |-> "none", uid |-> 0]
BadToken == [kind |-> "bad", uid |-> 0]
ExpiredToken == [kind |-> "expired", uid |-> 0]
\* An Authorization header that does not start with 'Bearer '.
BasicToken == [kind |-> "basic", uid |-> 0]

\* jwt.sign({ userId }, secret, { expiresIn })
SignToken(uid) == [kind |-> "valid", uid |-> uid]

\* The identity as attached to the request (req.user).
UserDoc(uid) == [_id |-> uid] @@ users[uid]

NoUser == [_id |-> 0, role |-> "none"]

\* The calls that follow when a check passes, none when it fails.
Then(passed, calls) == IF passed THEN calls ELSE <<>>

\* Mutant of AuthenticateTrace: the identity is looked up for every call,
\* before the header and the token are examined.
AuthenticateTrace_AlwaysLooksUp(token) == <<"authenticate", "User.findById">>

\* The calls of authenticate: User.findById once jwt.verify returned.
AuthenticateTrace(token) ==
    <<"authenticate">> \o Then(token.kind = "valid", <<"User.findById">>)

\* Mutant of Authenticate: a verified token whose identity is not in the
\* store is served as the first identity of the store.
Authenticate_FallsBack(token) ==
    CASE token.kind \in {"none", "basic"} ->
            [status |-> 401, error |-> "Access denied. No token provided.", user |-> NoUser]
      [] token.kind = "bad" ->
            [status |-> 401, error |-> "Invalid token.", user |-> NoUser]
      [] token.kind = "expired" ->
            [status |-> 401, error |-> "Token expired.", user |-> NoUser]
      [] OTHER ->
            IF token.uid \in DOMAIN users
            THEN [status |-> 0, error |-> "", user |-> UserDoc(token.uid)]
            ELSE [status |-> 0, error |-> "", user |-> UserDoc(1)]

\* authenticate: the response it sends (status 0: none, next() is called)
\* and req.user.
Authenticate(token) ==
    CASE token.kind \in {"none", "basic"} ->
            [status |-> 401, error |-> "Access denied. No token provided.", user |-> NoUser]
      [] token.kind = "bad" ->
            [status |-> 401, error |-> "Invalid token.", user |-> NoUser]
      [] token.kind = "expired" ->
            [status |-> 401, error |-> "Token expired.", user |-> NoUser]
      [] OTHER ->
            IF token.uid \in DOMAIN users
            THEN [status |-> 0, error |-> "", user |-> UserDoc(token.uid)]
            ELSE [status |-> 401, error |-> "Invalid token. User not found.", user |-> NoUser]

\* What User.findById does in optionalAuth: it returns, or it throws (the
\* store cannot be reached).
Lookups == {"returns", "throws"}

\* Mutant of OptionalAuth: a token that does not resolve is answered 401, as
\* authenticate does.
OptionalAuth_Strict(token, lookup) ==
    IF token.kind \in {"none", "basic"}
    THEN [status |-> 0, error |-> "", user |-> NoUser, next |-> 1]
    ELSE IF token.kind = "valid" /\ lookup = "returns" /\ token.uid \in DOMAIN users
    THEN [status |-> 0, error |-> "", user |-> UserDoc(token.uid), next |-> 1]
    ELSE [status |-> 401, error |-> "Invalid token.", user |-> NoUser, next |-> 0]

\* optionalAuth: req.user when the token verifies and its identity is found;
\* every failure is swallowed by the catch block. It sends no response
\* (status 0) and calls next() once on each path.
OptionalAuth(token, lookup) ==
    IF token.kind = "valid" /\ lookup = "returns" /\ token.uid \in DOMAIN users
    THEN [status |-> 0, error |-> "", user |-> UserDoc(token.uid), next |-> 1]
    ELSE [status |-> 0, error |-> "", user |-> NoUser, next |-> 1]

\* The calls of optionalAuth: jwt.verify or User.findById may throw into
\* the catch block.
OptionalAuthTrace(token, lookup) ==
    <<"optionalAuth">>
    \o Then(token.kind = "valid", <<"User.findById">>)
    \o Then(token.kind \in {"bad", "expired"} \/ (token.kind = "valid" /\ lookup = "throws"),
            <<"catch">>)
    \o Repeat("next", OptionalAuth(token, lookup).next)

----------------------------------------------------------------------------
(* Quiz Store: queries *)

Idle == [pc |-> "idle"]

\* Mutant of PopulateOwner: the owner reference replaced by the whole
\* identity record.
PopulateOwner_WholeRecord(doc, fields) ==
    [doc EXCEPT !.owner = [_id |-> doc.owner] @@ users[doc.owner]]

\* .populate('owner', fields): the owner reference replaced by the summary
\* of the identity it names.
PopulateOwner(doc, fields) ==
    [doc EXCEPT !.owner = [_id |-> doc.owner] @@ [f \in fields |-> users[doc.owner][f]]]

\* A stored document as a query returns it.
QuizDoc(store, id) == [_id |-> id] @@ store[id]

\* The value of a query that matched nothing.
Null == [kind |-> "null"]

\* Quiz.findById(id)
FindById(id) == IF id \in DOMAIN quizzes THEN QuizDoc(quizzes, id) ELSE Null

\* Whether a document matches an equality filter.
Matches(doc, query) == \A f \in DOMAIN query : doc[f] = query[f]

\* Quiz.find(query): the ids of the matching documents.
Find(query) == {id \in DOMAIN quizzes : Matches(quizzes[id], query)}

\* Mutant of NewestFirst: sort({ createdAt: 1 }).
NewestFirst_OldestFirst(ids) ==
    {s \in [1..Cardinality(ids) -> ids] :
        /\ \A i, j \in 1..Cardinality(ids) : i # j => s[i] # s[j]
        /\ \A i, j \in 1..Cardinality(ids) :
              i < j => quizzes[s[i]].createdAt <= quizzes[s[j]].createdAt}

\* Quiz.find(filter).sort({ createdAt: -1 }): every order of the matching
\* ids that is descending in createdAt (the store orders ties as it likes).
NewestFirst(ids) ==
    {s \in [1..Cardinality(ids) -> ids] :
        /\ \A i, j \in 1..Cardinality(ids) : i # j => s[i] # s[j]
        /\ \A i, j \in 1..Cardinality(ids) :
              i < j => quizzes[s[i]].createdAt >= quizzes[s[j]].createdAt}

\* Mutant of ApplyUpdate: the write leaves the stored title in place (the
\* first value wins).
ApplyUpdate_KeepsTitle(doc, updateData) ==
    [f \in DOMAIN doc |->
        IF f = "updatedAt" THEN now
        ELSE IF f \in DOMAIN updateData \ {"title"} THEN updateData[f]
        ELSE doc[f]]

\* Mutant of ApplyUpdate: the write also reassigns the quiz, to the first
\* identity of the Credential Store.
ApplyUpdate_Reassigns(doc, updateData) ==
    [f \in DOMAIN doc |->
        IF f = "updatedAt" THEN now
        ELSE IF f \in DOMAIN updateData THEN updateData[f]
        ELSE IF f = "owner" THEN 1
        ELSE doc[f]]

\* The document findByIdAndUpdate leaves: the supplied paths written, the
\* pre('findOneAndUpdate') hook setting updatedAt.
ApplyUpdate(doc, updateData) ==
    [f \in DOMAIN doc |->
        IF f = "updatedAt" THEN now
        ELSE IF f \in DOMAIN updateData THEN updateData[f]
        ELSE doc[f]]

\* The play projection of a question.
PlayQuestion(q) == [text |-> q.text, options |-> q.options, correctIndex |-> q.correctIndex]

----------------------------------------------------------------------------
(* Authorizer: the checks of the controllers *)

\* Mutant of OwnerOrAdmin: the read path's check (owner, admin or public)
\* copied to the write path.
OwnerOrAdmin_OrPublic(quiz, user) ==
    quiz.owner = user._id \/ user.role = "admin" \/ quiz.isPublic

\* updateResource and deleteResource: isOwner || isAdmin, the owner being
\* the unpopulated reference.
OwnerOrAdmin(quiz, user) == quiz.owner = user._id \/ user.role = "admin"

\* Mutant of CanRead: the visibility flag left out.
CanRead_IgnoresPublic(quiz, user) ==
    quiz.owner._id = user._id \/ user.role = "admin"

\* getResourceById: isOwner || isAdmin || quiz.isPublic, the owner populated.
CanRead(quiz, user) ==
    quiz.owner._id = user._id \/ user.role = "admin" \/ quiz.isPublic

\* Mutant of CanPlay: an absent req.user counted as the owner.
CanPlay_AnonymousOwner(quiz, user) ==
    \/ quiz.isPublic
    \/ user = NoUser
    \/ quiz.owner._id = user._id
    \/ user.role = "admin"

\* getResourceForPlay: a request without req.user is neither owner nor admin.
CanPlay(quiz, user) ==
    \/ quiz.isPublic
    \/ (user # NoUser /\ quiz.owner._id = user._id)
    \/ (user # NoUser /\ user.role = "admin")

NotFound == AppError("Quiz not found", 404)
AccessDenied == AppError("Access denied. You do not own this resource.", 403)
NotPlayable == AppError("This quiz is not available for playing", 403)
NoError == AppError("", 0)

\* Mutant of MutateError: ownership (of quiz?.owner) checked before existence.
MutateError_OwnerFirst(quiz, user) ==
    IF (quiz = Null \/ quiz.owner # user._id) /\ user.role # "admin" THEN AccessDenied
    ELSE IF quiz = Null THEN NotFound
    ELSE NoError

\* updateResource and deleteResource after Quiz.findById: the error thrown,
\* the missing quiz checked first.
MutateError(quiz, user) ==
    IF quiz = Null THEN NotFound
    ELSE IF ~OwnerOrAdmin(quiz, user) THEN AccessDenied
    ELSE NoError

\* getResourceById after Quiz.findById(...).populate(...): the error thrown.
ReadError(quiz, user) ==
    IF quiz = Null THEN NotFound
    ELSE IF ~CanRead(quiz, user) THEN AccessDenied
    ELSE NoError

\* getResourceForPlay after Quiz.findById(...).populate(...): the error thrown.
PlayError(quiz, user) ==
    IF quiz = Null THEN NotFound
    ELSE IF ~CanPlay(quiz, user) THEN NotPlayable
    ELSE NoError

\* .populate(...) of a query result.
Populated(quiz, fields) == IF quiz = Null THEN Null ELSE PopulateOwner(quiz, fields)

----------------------------------------------------------------------------
(* Notifier *)

\* The outcome of a promise sendEmail returned.
Resolved(value) == [state |-> "resolved", value |-> value]
Rejected == [state |-> "rejected", value |-> FALSE]

\* The notifier of a process: the transport initEmailService created (or
\* none), no send in flight, no outcome yet.
NewNotifier(configured) == [transporter |-> configured, pending |-> 0, settled |-> {}]

\* sendEmail up to its await: without a transport it returns false at once,
\* with one it calls transporter.sendMail and waits.
SendEmail(n) ==
    IF ~n.transporter
    THEN [n EXCEPT !.settled = @ \cup {Resolved(FALSE)}]
    ELSE [n EXCEPT !.pending = @ + 1]

\* Mutant of SettleSend: sendEmail without its try/catch.
SettleSend_NoCatch(n, delivered) ==
    [n EXCEPT !.pending = @ - 1,
              !.settled = @ \cup {IF delivered THEN Resolved(TRUE) ELSE Rejected}]

\* sendEmail after its await: true when sendMail resolved, false (from the
\* catch block) when it rejected.
SettleSend(n, delivered) ==
    [n EXCEPT !.pending = @ - 1,
              !.settled = @ \cup {IF delivered THEN Resolved(TRUE) ELSE Resolved(FALSE)}]

\* transporter.sendMail of a send in flight resolves or rejects. No request
\* is served by this step.
MailSettle(delivered) ==
    /\ notifier.pending > 0
    /\ notifier' = SettleSend(notifier, delivered)
    /\ UNCHANGED <<users, nextUserId, quizzes, nextQuizId, now, slot, last, trace>>

----------------------------------------------------------------------------
(* Resource Pipeline: POST /resource *)

\* Mutant of NewQuizDoc: isPublic || true where the code has isPublic || false.
NewQuizDoc_PublicByDefault(body, user) ==
    [title |-> body.title,
     description |-> IF "description" \in DOMAIN body /\ body.description # <<>>
                     THEN body.description ELSE <<>>,
     isPublic |-> TRUE,
     questions |-> body.questions,
     owner |-> user._id]

\* The document createResource hands to Quiz.create.
NewQuizDoc(body, user) ==
    [title |-> body.title,
     description |-> IF "description" \in DOMAIN body /\ body.description # <<>>
                     THEN body.description ELSE <<>>,
     isPublic |-> IF "isPublic" \in DOMAIN body /\ body.isPublic THEN TRUE ELSE FALSE,
     questions |-> body.questions,
     owner |-> user._id]

\* authenticate, validateBody(createResourceSchema), createResource.
CreateResource(token, body) ==
    LET rq == [op |-> "create", token |-> token, id |-> 0, body |-> body]
        auth == Authenticate(token)
        value == CreateResourceValue(body)
        doc == CastQuizFields(NewQuizDoc(value, auth.user))
              @@ [createdAt |-> now, updatedAt |-> now]
    IN  /\ UNCHANGED <<users, nextUserId, now, slot>>
        /\ trace' = AuthenticateTrace(token) \o Then(auth.status = 0,
              <<"validateBody">> \o Then(CreateResourceErrors(body) = {},
              <<"createResource", "Quiz.create">>))
        /\ IF auth.status # 0
           THEN /\ last' = Reply(rq, 0, auth.status, auth.error, NoData)
                /\ UNCHANGED <<quizzes, nextQuizId, notifier>>
           ELSE IF CreateResourceErrors(body) # {}
           THEN /\ last' = Reply(rq, auth.user._id, 400, "Validation failed", NoData)
                /\ UNCHANGED <<quizzes, nextQuizId, notifier>>
           ELSE IF QuizDocErrors(doc) # {}
           THEN /\ last' = ErrorReply(rq, auth.user._id, ValidationError)
                /\ UNCHANGED <<quizzes, nextQuizId, notifier>>
           ELSE /\ nextQuizId <= MaxQuizzes
                /\ quizzes' = (nextQuizId :> doc) @@ quizzes
                /\ nextQuizId' = nextQuizId + 1
                /\ notifier' = SendEmail(notifier)
                /\ last' = Reply(rq, auth.user._id, 201, "",
                                 [kind |-> "quiz", resource |-> QuizDoc(quizzes', nextQuizId)])

----------------------------------------------------------------------------
(* Resource Pipeline: GET /resource, GET /resource/public *)

\* Mutant of ListQuery: the owner filter never set.
ListQuery_Unfiltered(user) == <<>>

\* The filter getAllResources builds: the caller's own quizzes unless the
\* caller is an admin.
ListQuery(user) == IF user.role # "admin" THEN [owner |-> user._id] ELSE <<>>

\* authenticate, getAllResources.
GetAllResources(token) ==
    LET rq == [op |-> "list", token |-> token, id |-> 0, body |-> NoBody]
        auth == Authenticate(token)
        ids == Find(ListQuery(auth.user))
    IN  /\ UNCHANGED <<users, nextUserId, quizzes, nextQuizId, now, slot>>
        /\ UNCHANGED notifier
        /\ trace' = AuthenticateTrace(token) \o Then(auth.status = 0,
              <<"getAllResources", "Quiz.find">>)
        /\ IF auth.status # 0
           THEN last' = Reply(rq, 0, auth.status, auth.error, NoData)
           ELSE \E s \in NewestFirst(ids) :
                  last' = Reply(rq, auth.user._id, 200, "",
                      [kind |-> "list", count |-> Len(s),
                       resources |-> [i \in 1..Len(s) |->
                           PopulateOwner(QuizDoc(quizzes, s[i]), {"username", "email"})]])

\* getPublicResources (no middleware).
GetPublicResources ==
    LET rq == [op |-> "public", token |-> NoToken, id |-> 0, body |-> NoBody]
        ids == Find([isPublic |-> TRUE])
        item(id) ==
            LET q == PopulateOwner(QuizDoc(quizzes, id), {"username"})
            IN  [_id |-> id, title |-> q.title, description |-> q.description,
                 owner |-> q.owner, createdAt |-> q.createdAt,
                 questionCount |-> Len(q.questions)]
    IN  /\ UNCHANGED <<users, nextUserId, quizzes, nextQuizId, now, slot>>
        /\ UNCHANGED notifier
        /\ trace' = <<"getPublicResources", "Quiz.find">>
        /\ \E s \in NewestFirst(ids) :
              last' = Reply(rq, 0, 200, "",
                  [kind |-> "list", count |-> Len(s),
                   resources |-> [i \in 1..Len(s) |-> item(s[i])]])

----------------------------------------------------------------------------
(* Resource Pipeline: GET /resource/:id, GET /resource/:id/play *)

\* Mutant of GetResourceById: validateParams mounted before authenticate.
GetResourceById_ParamsFirst(token, id) ==
    LET rq == [op |-> "get", token |-> token, id |-> id, body |-> NoBody]
        auth == Authenticate(token)
        uid == auth.user._id
        quiz == Populated(FindById(id), {"username", "email"})
        err == ReadError(quiz, auth.user)
    IN  /\ UNCHANGED <<users, nextUserId, quizzes, nextQuizId, now, slot>>
        /\ UNCHANGED notifier
        /\ trace' = <<"validateParams">> \o Then(IdParamOk(id),
              AuthenticateTrace(token) \o Then(auth.status = 0,
              <<"getResourceById", "Quiz.findById">>))
        /\ IF ~IdParamOk(id)
           THEN last' = Reply(rq, 0, 400, "Invalid parameters", NoData)
           ELSE IF auth.status # 0
           THEN last' = Reply(rq, 0, auth.status, auth.error, NoData)
           ELSE IF err # NoError
           THEN last' = ErrorReply(rq, uid, err)
           ELSE last' = Reply(rq, uid, 200, "", [kind |-> "quiz", resource |-> quiz])

\* authenticate, validateParams(idParamSchema), getResourceById.
GetResourceById(token, id) ==
    LET rq == [op |-> "get", token |-> token, id |-> id, body |-> NoBody]
        auth == Authenticate(token)
        uid == auth.user._id
        quiz == Populated(FindById(id), {"username", "email"})
        err == ReadError(quiz, auth.user)
    IN  /\ UNCHANGED <<users, nextUserId, quizzes, nextQuizId, now, slot>>
        /\ UNCHANGED notifier
        /\ trace' = AuthenticateTrace(token) \o Then(auth.status = 0,
              <<"validateParams">> \o Then(IdParamOk(id),
              <<"getResourceById", "Quiz.findById">>))
        /\ IF auth.status # 0
           THEN last' = Reply(rq, 0, auth.status, auth.error, NoData)
           ELSE IF ~IdParamOk(id)
           THEN last' = Reply(rq, uid, 400, "Invalid parameters", NoData)
           ELSE IF err # NoError
           THEN last' = ErrorReply(rq, uid, err)
           ELSE last' = Reply(rq, uid, 200, "", [kind |-> "quiz", resource |-> quiz])

\* The resource getResourceForPlay answers with.
PlayProjection(quiz) ==
    [_id |-> quiz._id, title |-> quiz.title, description |-> quiz.description,
     owner |-> quiz.owner,
     questions |-> [i \in 1..Len(quiz.questions) |-> PlayQuestion(quiz.questions[i])],
     questionCount |-> Len(quiz.questions)]

\* optionalAuth, validateParams(idParamSchema), getResourceForPlay.
GetResourceForPlay(token, id, lookup) ==
    LET rq == [op |-> "play", token |-> token, id |-> id, body |-> NoBody]
        auth == OptionalAuth(token, lookup)
        user == auth.user
        uid == user._id
        quiz == Populated(FindById(id), {"username"})
        err == PlayError(quiz, user)
    IN  /\ UNCHANGED <<users, nextUserId, quizzes, nextQuizId, now, slot>>
        /\ UNCHANGED notifier
        /\ trace' = OptionalAuthTrace(token, lookup) \o Then(auth.next > 0,
              <<"validateParams">> \o Then(IdParamOk(id),
              <<"getResourceForPlay", "Quiz.findById">>))
        /\ IF auth.status # 0
           THEN last' = Reply(rq, 0, auth.status, auth.error, NoData)
           ELSE IF ~IdParamOk(id)
           THEN last' = Reply(rq, uid, 400, "Invalid parameters", NoData)
           ELSE IF err # NoError
           THEN last' = ErrorReply(rq, uid, err)
           ELSE last' = Reply(rq, uid, 200, "",
                              [kind |-> "play", resource |-> PlayProjection(quiz)])

----------------------------------------------------------------------------
(* Resource Pipeline: PUT /resource/:id *)

\* Mutant of UpdateData: a field is copied when its value is truthy.
UpdateData_Truthy(body) ==
    [f \in {g \in QuizFields :
               /\ g \in DOMAIN body
               /\ (g = "isPublic" => body.isPublic)
               /\ (g = "description" => body.description # <<>>)} |-> body[f]]

\* The updateData object updateResource builds: each field of the body that
\* is not undefined.
UpdateData(body) == [f \in {g \in QuizFields : g \in DOMAIN body} |-> body[f]]

\* authenticate, validateParams, validateBody(updateResourceSchema), then
\* updateResource up to its second await: Quiz.findById, the 404 and the
\* owner-or-admin check.
UpdateResourceBegin(h, token, id, body) ==
    LET rq == [op |-> "update", token |-> token, id |-> id, body |-> body]
        auth == Authenticate(token)
        uid == auth.user._id
        err == MutateError(FindById(id), auth.user)
    IN  /\ slot[h] = Idle
        /\ UNCHANGED <<users, nextUserId, quizzes, nextQuizId, now>>
        /\ UNCHANGED notifier
        /\ trace' = AuthenticateTrace(token) \o Then(auth.status = 0,
              <<"validateParams">> \o Then(IdParamOk(id),
              <<"validateBody">> \o Then(UpdateResourceErrors(body) = {},
              <<"updateResource", "Quiz.findById">>)))
        /\ IF auth.status # 0
           THEN last' = Reply(rq, 0, auth.status, auth.error, NoData) /\ UNCHANGED slot
           ELSE IF ~IdParamOk(id)
           THEN last' = Reply(rq, uid, 400, "Invalid parameters", NoData) /\ UNCHANGED slot
           ELSE IF UpdateResourceErrors(body) # {}
           THEN last' = Reply(rq, uid, 400, "Validation failed", NoData) /\ UNCHANGED slot
           ELSE IF err # NoError
           THEN last' = ErrorReply(rq, uid, err) /\ UNCHANGED slot
           ELSE /\ slot' = [slot EXCEPT ![h] =
                      [pc |-> "update", rq |-> rq, user |-> uid,
                       updateData |-> UpdateData(UpdateResourceValue(body))]]
                /\ last' = Reply(rq, uid, 0, "", NoData)

\* Mutant of UpdateResourceWrite: the write is an upsert, which inserts the
\* document when the id matches none.
UpdateResourceWrite_Upserts(h) ==
    LET rq == slot[h].rq
        uid == slot[h].user
        upd == CastQuizFields(slot[h].updateData)
        blank == [title |-> <<>>, description |-> <<>>, isPublic |-> FALSE,
                  questions |-> <<>>, owner |-> uid, createdAt |-> now, updatedAt |-> now]
    IN  /\ slot[h].pc = "update"
        /\ slot' = [slot EXCEPT ![h] = Idle]
        /\ UNCHANGED <<users, nextUserId, nextQuizId, now>>
        /\ UNCHANGED notifier
        /\ trace' = <<"Quiz.findByIdAndUpdate">>
        /\ quizzes' = IF rq.id \in DOMAIN quizzes
                       THEN [quizzes EXCEPT ![rq.id] = ApplyUpdate(@, upd)]
                       ELSE (rq.id :> ApplyUpdate(blank, upd)) @@ quizzes
        /\ last' = Reply(rq, uid, 200, "",
               [kind |-> "quiz",
                resource |-> PopulateOwner(QuizDoc(quizzes', rq.id), {"username", "email"})])

\* updateResource from Quiz.findByIdAndUpdate(id, updateData, { new: true,
\* runValidators: true }).populate(...) to res.json.
UpdateResourceWrite(h) ==
    LET rq == slot[h].rq
        uid == slot[h].user
        upd == CastQuizFields(slot[h].updateData)
    IN  /\ slot[h].pc = "update"
        /\ slot' = [slot EXCEPT ![h] = Idle]
        /\ UNCHANGED <<users, nextUserId, nextQuizId, now>>
        /\ UNCHANGED notifier
        /\ trace' = <<"Quiz.findByIdAndUpdate">>
        /\ IF QuizDocErrors(upd) # {}
           THEN last' = ErrorReply(rq, uid, ValidationError) /\ UNCHANGED quizzes
           ELSE IF rq.id \notin DOMAIN quizzes
           THEN /\ last' = Reply(rq, uid, 200, "", Null)
                /\ UNCHANGED quizzes
           ELSE /\ quizzes' = [quizzes EXCEPT ![rq.id] = ApplyUpdate(@, upd)]
                /\ last' = Reply(rq, uid, 200, "",
                       [kind |-> "quiz",
                        resource |-> PopulateOwner(QuizDoc(quizzes', rq.id),
                                                   {"username", "email"})])

----------------------------------------------------------------------------
(* Resource Pipeline: DELETE /resource/:id *)

\* Mutant of DeleteResourceBegin: the 404 and the 403 are sent by the
\* controller itself, without a return, so the handler goes on to its
\* second await after it answered.
DeleteResourceBegin_AnswersAndGoesOn(h, token, id) ==
    LET rq == [op |-> "delete", token |-> token, id |-> id, body |-> NoBody]
        auth == Authenticate(token)
        uid == auth.user._id
        err == MutateError(FindById(id), auth.user)
    IN  /\ slot[h] = Idle
        /\ UNCHANGED <<users, nextUserId, quizzes, nextQuizId, now>>
        /\ UNCHANGED notifier
        /\ trace' = AuthenticateTrace(token) \o Then(auth.status = 0,
              <<"validateParams">> \o Then(IdParamOk(id),
              <<"deleteResource", "Quiz.findById">>))
        /\ IF auth.status # 0
           THEN last' = Reply(rq, 0, auth.status, auth.error, NoData) /\ UNCHANGED slot
           ELSE IF ~IdParamOk(id)
           THEN last' = Reply(rq, uid, 400, "Invalid parameters", NoData) /\ UNCHANGED slot
           ELSE /\ slot' = [slot EXCEPT ![h] = [pc |-> "delete", rq |-> rq, user |-> uid]]
                /\ last' = IF err # NoError THEN ErrorReply(rq, uid, err)
                                            ELSE Reply(rq, uid, 0, "", NoData)

\* authenticate, validateParams, then deleteResource up to its second
\* await: Quiz.findById, the 404 and the owner-or-admin check.
DeleteResourceBegin(h, token, id) ==
    LET rq == [op |-> "delete", token |-> token, id |-> id, body |-> NoBody]
        auth == Authenticate(token)
        uid == auth.user._id
        err == MutateError(FindById(id), auth.user)
    IN  /\ slot[h] = Idle
        /\ UNCHANGED <<users, nextUserId, quizzes, nextQuizId, now>>
        /\ UNCHANGED notifier
        /\ trace' = AuthenticateTrace(token) \o Then(auth.status = 0,
              <<"validateParams">> \o Then(IdParamOk(id),
              <<"deleteResource", "Quiz.findById">>))
        /\ IF auth.status # 0
           THEN last' = Reply(rq, 0, auth.status, auth.error, NoData) /\ UNCHANGED slot
           ELSE IF ~IdParamOk(id)
           THEN last' = Reply(rq, uid, 400, "Invalid parameters", NoData) /\ UNCHANGED slot
           ELSE IF err # NoError
           THEN last' = ErrorReply(rq, uid, err) /\ UNCHANGED slot
           ELSE /\ slot' = [slot EXCEPT ![h] = [pc |-> "delete", rq |-> rq, user |-> uid]]
                /\ last' = Reply(rq, uid, 0, "", NoData)

\* deleteResource from Quiz.findByIdAndDelete(id) to res.json.
DeleteResourceWrite(h) ==
    LET rq == slot[h].rq
    IN  /\ slot[h].pc = "delete"
        /\ slot' = [slot EXCEPT ![h] = Idle]
        /\ quizzes' = [id \in DOMAIN quizzes \ {rq.id} |-> quizzes[id]]
        /\ last' = Reply(rq, slot[h].user, 200, "", Null)
        /\ UNCHANGED <<users, nextUserId, nextQuizId, now>>
        /\ UNCHANGED notifier
        /\ trace' = <<"Quiz.findByIdAndDelete">>

\* The clock advances.
Tick ==
    /\ now < MaxTime
    /\ now' = now + 1
    /\ last' = Reply([op |-> "none", token |-> NoToken, id |-> 0, body |-> NoBody],
                     0, 0, "", NoData)
    /\ UNCHANGED <<users, nextUserId, quizzes, nextQuizId, slot>>
    /\ UNCHANGED notifier
    /\ trace' = <<>>

----------------------------------------------------------------------------
(* The requests of the model *)

Str_Geo == <<"G", "e", "o">>
Str_Math == <<"M", "a", "t", "h">>
Str_ab == <<"a", "b">>
Str_desc == <<"d", "e", "s", "c">>

\* "Capital of France?" with options Paris, Lyon: correctIndex 0.
Q_two == [text |-> <<"Q">>, options |-> << <<"P">>, <<"L">> >>, correctIndex |-> 0]
Q_three == [text |-> <<"Q", "2">>, options |-> << <<"a">>, <<"b">>, <<"c">> >>,
            correctIndex |-> 2]
\* correctIndex equal to the option count.
Q_out == [text |-> <<"Q">>, options |-> << <<"P">>, <<"L">> >>, correctIndex |-> 2]
\* one option only
Q_one == [text |-> <<"Q">>, options |-> << <<"P">> >>, correctIndex |-> 0]
\* seven options
Q_seven == [text |-> <<"Q">>, options |-> Repeat(<<"o">>, 7), correctIndex |-> 0]

\* No handler is suspended: the client sends a request after the answer to
\* the one before.
AllIdle == \A h \in Slots : slot[h] = Idle

Tokens == {NoToken, BadToken} \cup {SignToken(u) : u \in 1..MaxUsers}

IdParams == 0..MaxQuizzes

CreateBodies ==
    { [title |-> Str_Geo, questions |-> <<Q_two>>, owner |-> 1],
      [title |-> Str_Geo, isPublic |-> TRUE, questions |-> <<Q_two>>],
      [title |-> Str_ab, questions |-> <<Q_two>>] }

UpdateBodies ==
    { [isPublic |-> TRUE],
      [isPublic |-> FALSE, owner |-> 3],
      [owner |-> 3] }

\* The identities of the seeded Credential Store: an admin and two users.
SeedUsers ==
    (1 :> [username |-> <<"r", "o", "o", "t">>, email |-> <<"r", "@", "x", ".", "i", "o">>,
           passwordHash |-> <<"h", "1">>, role |-> "admin"])
    @@ (2 :> [username |-> <<"a", "l", "i", "c", "e">>, email |-> <<"a", "@", "x", ".", "i", "o">>,
              passwordHash |-> <<"h", "2">>, role |-> "user"])
    @@ (3 :> [username |-> <<"b", "o", "b">>, email |-> <<"b", "@", "x", ".", "i", "o">>,
              passwordHash |-> <<"h", "3">>, role |-> "user"])

NoRequest == Reply([op |-> "none", token |-> NoToken, id |-> 0, body |-> NoBody],
                   0, 0, "", NoData)

Init ==
    /\ users = SeedUsers
    /\ nextUserId = MaxUsers + 1
    /\ quizzes = <<>>
    /\ nextQuizId = 1
    /\ now = 0
    /\ slot = [h \in Slots |-> Idle]
    /\ last = NoRequest
    /\ trace = <<>>
    /\ notifier = NewNotifier(FALSE)

Next ==
    \/ /\ AllIdle
       /\ \/ \E t \in Tokens, b \in CreateBodies : CreateResource(t, b)
          \/ \E t \in Tokens : GetAllResources(t)
          \/ GetPublicResources
          \/ \E t \in Tokens, id \in IdParams : GetResourceById(t, id)
          \/ \E t \in Tokens, id \in IdParams : GetResourceForPlay(t, id, "returns")
          \/ \E t \in Tokens, id \in IdParams, b \in UpdateBodies :
                UpdateResourceBegin("h1", t, id, b)
          \/ \E t \in Tokens, id \in IdParams : DeleteResourceBegin("h1", t, id)
    \/ UpdateResourceWrite("h1")
    \/ DeleteResourceWrite("h1")

Spec == Init /\ [][Next]_vars

----------------------------------------------------------------------------
(* Validator: the Joi schemas of the identity *)

Range(s) == {s[i] : i \in 1..Len(s)}

\* pattern(/^[a-zA-Z0-9_]+$/)
UsernamePattern(s) == s # <<>> /\ Range(s) \subseteq (Letters \cup Capitals \cup Digits \cup {"_"})

\* lowercase() under strict(): a rule, the value must hold no capital.
IsLowercase(s) == Range(s) \cap Capitals = {}

\* The top-level domains email() accepts (a part of the IANA list).
KnownTlds == {<<"i", "o">>, <<"c", "o", "m">>}

\* email(): one "@", a non-empty local part, a domain of non-empty labels
\* that ends in a known top-level domain.
IsEmail(s) ==
    \E at \in 1..Len(s) :
        /\ s[at] = "@"
        /\ \A i \in 1..Len(s) : s[i] = "@" => i = at
        /\ at > 1
        /\ Range(s) \subseteq (Letters \cup Capitals \cup Digits \cup {"_", ".", "@"})
        /\ \E dot \in (at + 2)..(Len(s) - 1) :
              /\ s[dot] = "."
              /\ SubSeq(s, dot + 1, Len(s)) \in KnownTlds
              /\ \A i \in (at + 1)..(dot - 1) : s[i] = "." => (i > at + 1 /\ s[i + 1] # ".")

\* username of registerSchema and updateProfileSchema
UsernameOk(s) == StringOk(s, UsernameMin, UsernameMax, FALSE) /\ UsernamePattern(s)

\* email of registerSchema, loginSchema and updateProfileSchema
EmailOk(s) == s # <<>> /\ IsTrimmed(s) /\ IsLowercase(s) /\ IsEmail(s) /\ Len(s) <= EmailMax

\* password of registerSchema: 8..128 characters, one lower-case letter, one
\* capital and one digit; not trimmed.
PasswordOk(s) ==
    /\ Len(s) >= PasswordMin
    /\ Len(s) <= PasswordMax
    /\ Range(s) \cap Letters # {}
    /\ Range(s) \cap Capitals # {}
    /\ Range(s) \cap Digits # {}

\* The fields of a payload that violate registerSchema.
RegisterErrors(body) ==
    {f \in {"username", "email", "password"} :
        CASE f = "username" -> "username" \notin DOMAIN body \/ ~UsernameOk(body.username)
          [] f = "email" -> "email" \notin DOMAIN body \/ ~EmailOk(body.email)
          [] f = "password" -> "password" \notin DOMAIN body \/ ~PasswordOk(body.password)}

\* The violations of updateProfileSchema: both fields optional, one needed.
UpdateProfileErrors(body) ==
    {f \in {"username", "email"} :
        CASE f = "username" -> "username" \in DOMAIN body /\ ~UsernameOk(body.username)
          [] f = "email" -> "email" \in DOMAIN body /\ ~EmailOk(body.email)}
    \cup (IF DOMAIN body \cap {"username", "email"} = {} THEN {"body"} ELSE {})

----------------------------------------------------------------------------
(* Credential Store *)

\* The unique indexes on username and email: the fields of `doc` that an
\* identity other than `self` already holds.
UniqueViolations(doc, self) ==
    {f \in {"username", "email"} \cap DOMAIN doc :
        \E v \in DOMAIN users \ {self} : users[v][f] = doc[f]}

\* bcrypt.hash(password, SALT_ROUNDS)
Hash(password) == <<"#">> \o password

\* user.toJSON(): the identity without its password hash.
UserJson(uid, doc) ==
    [_id |-> uid, username |-> doc.username, email |-> doc.email, role |-> doc.role]

----------------------------------------------------------------------------
(* POST /register *)

\* Mutant of RegisterTrace: the route runs the controller's lookup before
\* the validator.
RegisterTrace_LookupFirst(body) == <<"register", "User.findOne", "validateBody">>

\* router.post('/register', validateBody(registerSchema), register): the
\* calls up to register's first await.
RegisterTrace(body) ==
    <<"validateBody">> \o Then(RegisterErrors(body) = {}, <<"register", "User.findOne">>)

\* validateBody(registerSchema), then register up to its next await:
\* User.findOne({ $or: [{ email }, { username }] }) and the 400 it leads to.
RegisterBegin(h, body) ==
    LET rq == [op |-> "register", token |-> NoToken, id |-> 0, body |-> body]
        value == StripUnknown(body, {"username", "email", "password"})
        found == {v \in DOMAIN users :
                     users[v].email = value.email \/ users[v].username = value.username}
    IN  /\ slot[h] = Idle
        /\ UNCHANGED <<users, nextUserId, quizzes, nextQuizId, now>>
        /\ UNCHANGED notifier
        /\ trace' = RegisterTrace(body)
        /\ IF RegisterErrors(body) # {}
           THEN last' = Reply(rq, 0, 400, "Validation failed", NoData) /\ UNCHANGED slot
           ELSE IF found # {}
           THEN /\ \E v \in found :
                     last' = ErrorReply(rq, 0,
                        IF users[v].email = value.email
                        THEN AppError("Email already registered", 400)
                        ELSE AppError("Username already taken", 400))
                /\ UNCHANGED slot
           ELSE /\ slot' = [slot EXCEPT ![h] = [pc |-> "register", rq |-> rq, value |-> value]]
                /\ last' = Reply(rq, 0, 0, "", NoData)

\* register from bcrypt.hash and User.create to res.status(201).
RegisterCreate(h) ==
    LET rq == slot[h].rq
        value == slot[h].value
        doc == [username |-> value.username, email |-> value.email,
                passwordHash |-> Hash(value.password), role |-> "user"]
        dup == UniqueViolations(doc, 0)
    IN  /\ slot[h].pc = "register"
        /\ slot' = [slot EXCEPT ![h] = Idle]
        /\ UNCHANGED <<quizzes, nextQuizId, now>>
        /\ trace' = <<"bcrypt.hash", "User.create">>
        /\ IF dup # {}
           THEN /\ \E f \in dup : last' = ErrorReply(rq, 0, DuplicateKeyError(f))
                /\ UNCHANGED <<users, nextUserId, notifier>>
           ELSE /\ nextUserId <= MaxUsers
                /\ users' = (nextUserId :> doc) @@ users
                /\ nextUserId' = nextUserId + 1
                /\ notifier' = SendEmail(notifier)
                /\ last' = Reply(rq, nextUserId, 201, "",
                       [kind |-> "auth", user |-> UserJson(nextUserId, doc),
                        token |-> SignToken(nextUserId)])

----------------------------------------------------------------------------
(* PUT /users/profile *)

\* The $or list updateProfile builds: the supplied fields that differ from
\* req.user.
ProfileQuery(body, reqUser) ==
    {f \in {"username", "email"} \cap DOMAIN body : body[f] # reqUser[f]}

\* authenticate, validateBody(updateProfileSchema), then updateProfile up to
\* its first await.
UpdateProfileBegin(h, token, body) ==
    LET rq == [op |-> "profile", token |-> token, id |-> 0, body |-> body]
        auth == Authenticate(token)
        value == StripUnknown(body, {"username", "email"})
    IN  /\ slot[h] = Idle
        /\ UNCHANGED <<users, nextUserId, quizzes, nextQuizId, now>>
        /\ UNCHANGED notifier
        /\ trace' = AuthenticateTrace(token) \o Then(auth.status = 0,
              <<"validateBody">> \o Then(UpdateProfileErrors(body) = {},
              <<"updateProfile">>))
        /\ IF auth.status # 0
           THEN last' = Reply(rq, 0, auth.status, auth.error, NoData) /\ UNCHANGED slot
           ELSE IF UpdateProfileErrors(body) # {}
           THEN /\ last' = Reply(rq, auth.user._id, 400, "Validation failed", NoData)
                /\ UNCHANGED slot
           ELSE /\ slot' = [slot EXCEPT ![h] =
                      [pc |-> IF ProfileQuery(value, auth.user) # {}
                              THEN "profile.check" ELSE "profile.write",
                       rq |-> rq, reqUser |-> auth.user, value |-> value]]
                /\ last' = Reply(rq, auth.user._id, 0, "", NoData)

\* updateProfile: User.findOne({ $or: query, _id: { $ne: req.user._id } })
\* and the 400 it leads to.
UpdateProfileCheck(h) ==
    LET rq == slot[h].rq
        me == slot[h].reqUser._id
        value == slot[h].value
        query == ProfileQuery(value, slot[h].reqUser)
        found == {v \in DOMAIN users \ {me} : \E f \in query : users[v][f] = value[f]}
    IN  /\ slot[h].pc = "profile.check"
        /\ UNCHANGED <<users, nextUserId, quizzes, nextQuizId, now>>
        /\ UNCHANGED notifier
        /\ trace' = <<"User.findOne">>
        /\ IF found = {}
           THEN /\ slot' = [slot EXCEPT ![h].pc = "profile.write"]
                /\ last' = Reply(rq, me, 0, "", NoData)
           ELSE \E v \in found :
                  IF "username" \in DOMAIN value /\ users[v].username = value.username
                  THEN /\ last' = ErrorReply(rq, me, AppError("Username already taken", 400))
                       /\ slot' = [slot EXCEPT ![h] = Idle]
                  ELSE IF "email" \in DOMAIN value /\ users[v].email = value.email
                  THEN /\ last' = ErrorReply(rq, me, AppError("Email already in use", 400))
                       /\ slot' = [slot EXCEPT ![h] = Idle]
                  ELSE /\ slot' = [slot EXCEPT ![h].pc = "profile.write"]
                       /\ last' = Reply(rq, me, 0, "", NoData)

\* updateProfile from User.findByIdAndUpdate(req.user._id, updateData,
\* { new: true, runValidators: true }) to res.json.
UpdateProfileWrite(h) ==
    LET rq == slot[h].rq
        me == slot[h].reqUser._id
        updateData == slot[h].value
        dup == UniqueViolations(updateData, me)
    IN  /\ slot[h].pc = "profile.write"
        /\ slot' = [slot EXCEPT ![h] = Idle]
        /\ UNCHANGED <<nextUserId, quizzes, nextQuizId, now>>
        /\ UNCHANGED notifier
        /\ trace' = <<"User.findByIdAndUpdate">>
        /\ IF dup # {}
           THEN /\ \E f \in dup : last' = ErrorReply(rq, me, DuplicateKeyError(f))
                /\ UNCHANGED users
           ELSE /\ users' = [users EXCEPT ![me] =
                      [f \in DOMAIN @ |-> IF f \in DOMAIN updateData THEN updateData[f] ELSE @[f]]]
                /\ last' = Reply(rq, me, 200, "",
                       [kind |-> "user", user |-> UserJson(me, users'[me])])

----------------------------------------------------------------------------
(* POST /login, GET /users/profile *)

\* The fields of a payload that violate loginSchema: the password is any
\* string of 1..128 characters.
LoginErrors(body) ==
    {f \in {"email", "password"} :
        CASE f = "email" -> "email" \notin DOMAIN body \/ ~EmailOk(body.email)
          [] f = "password" ->
                 \/ "password" \notin DOMAIN body
                 \/ Len(body.password) < 1
                 \/ Len(body.password) > PasswordMax}

\* Mutant of Compare: the password compared with the hash as it stands.
Compare_Plain(password, passwordHash) == password = passwordHash

\* bcrypt.compare(password, passwordHash)
Compare(password, passwordHash) == Hash(password) = passwordHash

InvalidCredentials == AppError("Invalid email or password", 401)

\* Mutant of Login: an email that matches no identity is answered 404.
Login_RevealsEmail(body) ==
    LET rq == [op |-> "login", token |-> NoToken, id |-> 0, body |-> body]
        value == StripUnknown(body, {"email", "password"})
        found == {v \in DOMAIN users : users[v].email = value.email}
    IN  /\ UNCHANGED <<users, nextUserId, quizzes, nextQuizId, now, slot>>
        /\ UNCHANGED notifier
        /\ trace' = <<"validateBody">> \o Then(LoginErrors(body) = {},
              <<"login", "User.findOne">> \o Then(found # {}, <<"bcrypt.compare">>))
        /\ IF LoginErrors(body) # {}
           THEN last' = Reply(rq, 0, 400, "Validation failed", NoData)
           ELSE IF found = {}
           THEN last' = ErrorReply(rq, 0, AppError("User not found", 404))
           ELSE \E v \in found :
                  IF ~Compare(value.password, users[v].passwordHash)
                  THEN last' = ErrorReply(rq, 0, InvalidCredentials)
                  ELSE last' = Reply(rq, v, 200, "",
                          [kind |-> "auth", user |-> UserJson(v, users[v]),
                           token |-> SignToken(v)])

\* validateBody(loginSchema), login. The handler reads the store once; the
\* await of bcrypt.compare touches no state.
Login(body) ==
    LET rq == [op |-> "login", token |-> NoToken, id |-> 0, body |-> body]
        value == StripUnknown(body, {"email", "password"})
        found == {v \in DOMAIN users : users[v].email = value.email}
    IN  /\ UNCHANGED <<users, nextUserId, quizzes, nextQuizId, now, slot>>
        /\ UNCHANGED notifier
        /\ trace' = <<"validateBody">> \o Then(LoginErrors(body) = {},
              <<"login", "User.findOne">> \o Then(found # {}, <<"bcrypt.compare">>))
        /\ IF LoginErrors(body) # {}
           THEN last' = Reply(rq, 0, 400, "Validation failed", NoData)
           ELSE IF found = {}
           THEN last' = ErrorReply(rq, 0, InvalidCredentials)
           ELSE \E v \in found :
                  IF ~Compare(value.password, users[v].passwordHash)
                  THEN last' = ErrorReply(rq, 0, InvalidCredentials)
                  ELSE last' = Reply(rq, v, 200, "",
                          [kind |-> "auth", user |-> UserJson(v, users[v]),
                           token |-> SignToken(v)])

\* authenticate, getProfile.
GetProfile(token) ==
    LET rq == [op |-> "getProfile", token |-> token, id |-> 0, body |-> NoBody]
        auth == Authenticate(token)
        uid == auth.user._id
    IN  /\ UNCHANGED <<users, nextUserId, quizzes, nextQuizId, now, slot>>
        /\ UNCHANGED notifier
        /\ trace' = AuthenticateTrace(token) \o Then(auth.status = 0,
              <<"getProfile", "User.findById">>)
        /\ IF auth.status # 0
           THEN last' = Reply(rq, 0, auth.status, auth.error, NoData)
           ELSE IF uid \notin DOMAIN users
           THEN last' = ErrorReply(rq, uid, AppError("User not found", 404))
           ELSE last' = Reply(rq, uid, 200, "",
                          [kind |-> "user", user |-> UserJson(uid, users[uid])])

----------------------------------------------------------------------------
(* The requests to the Credential Store *)

Str_ali == <<"a", "l", "i">>
Str_bob == <<"b", "o", "b">>
Str_mailA == <<"a", "@", "x", ".", "i", "o">>
Str_mailB == <<"b", "@", "x", ".", "i", "o">>
Str_password == <<"P", "a", "s", "s", "w", "0", "r", "d">>

RegisterBodies ==
    { [username |-> Str_ali, email |-> Str_mailA, password |-> Str_password],
      [username |-> Str_ali, email |-> Str_mailB, password |-> Str_password],
      [username |-> Str_bob, email |-> Str_mailA, password |-> Str_password, role |-> "admin"],
      [username |-> Str_bob, email |-> <<"B", "@", "x", ".", "i", "o">>,
       password |-> Str_password] }

ProfileBodies ==
    { [username |-> Str_ali],
      [email |-> Str_mailA],
      [username |-> Str_bob, email |-> Str_mailB],
      [role |-> "admin"],
      [email |-> Str_mailB, role |-> "admin", passwordHash |-> <<"#">>] }

ProfileTokens == {NoToken} \cup {SignToken(u) : u \in 2..MaxUsers}

Str_wrong == <<"W", "r", "0", "n", "g">>

LoginBodies ==
    { [email |-> Str_mailA, password |-> Str_password],
      [email |-> Str_mailA, password |-> Str_wrong],
      [email |-> Str_mailB, password |-> Str_password, username |-> Str_ali],
      [email |-> Str_mailA] }

\* The Credential Store holds the admin alone.
InitUsers ==
    /\ users = [u \in {1} |-> SeedUsers[u]]
    /\ nextUserId = 2
    /\ quizzes = <<>>
    /\ nextQuizId = 1
    /\ now = 0
    /\ slot = [h \in Slots |-> Idle]
    /\ last = NoRequest
    /\ trace = <<>>
    /\ notifier = NewNotifier(FALSE)

NextUsers ==
    \/ \E h \in Slots, b \in RegisterBodies : RegisterBegin(h, b)
    \/ \E h \in Slots : RegisterCreate(h)
    \/ \E h \in Slots, t \in ProfileTokens, b \in ProfileBodies : UpdateProfileBegin(h, t, b)
    \/ \E h \in Slots : UpdateProfileCheck(h)
    \/ \E h \in Slots : UpdateProfileWrite(h)
    \/ \E b \in LoginBodies : Login(b)
    \/ \E t \in ProfileTokens : GetProfile(t)

SpecUsers == InitUsers /\ [][NextUsers]_vars

----------------------------------------------------------------------------
(* The requests that carry question lists *)

Q_neg == [text |-> <<"Q">>, options |-> << <<"P">>, <<"L">> >>, correctIndex |-> 0 - 1]

QuestionLists ==
    { <<Q_two>>, <<Q_three, Q_two>>,
      <<>>, <<Q_out>>, <<Q_one>>, <<Q_seven>>, <<Q_neg>>, <<Q_three, Q_out>>,
      Repeat(Q_two, QuestionsMax + 1) }

ContentCreateBodies == {[title |-> Str_Geo, questions |-> qs] : qs \in QuestionLists}

ContentUpdateBodies == {[questions |-> qs] : qs \in QuestionLists}

ContentTokens == {NoToken, SignToken(2)}

\* One request at a time, the clock advancing between requests.
NextContent ==
    \/ /\ AllIdle
       /\ \/ \E t \in ContentTokens, b \in ContentCreateBodies : CreateResource(t, b)
          \/ \E t \in ContentTokens, id \in IdParams, b \in ContentUpdateBodies :
                UpdateResourceBegin("h1", t, id, b)
          \/ Tick
    \/ UpdateResourceWrite("h1")

SpecContent == Init /\ [][NextContent]_vars

----------------------------------------------------------------------------
(* The requests that update a stored quiz field by field *)

MergeCreateBodies ==
    { [title |-> Str_Geo, description |-> Str_desc, isPublic |-> TRUE,
       questions |-> <<Q_two>>] }

MergeUpdateBodies ==
    { [isPublic |-> FALSE],
      [description |-> <<>>],
      [title |-> Str_Math, questions |-> <<Q_three, Q_two>>, owner |-> 3] }

MergeTokens == {SignToken(2)}

\* One request at a time, the clock advancing between requests.
NextMerge ==
    \/ /\ AllIdle
       /\ \/ \E t \in MergeTokens, b \in MergeCreateBodies : CreateResource(t, b)
          \/ \E t \in MergeTokens, id \in IdParams, b \in MergeUpdateBodies :
                UpdateResourceBegin("h1", t, id, b)
          \/ Tick
    \/ UpdateResourceWrite("h1")

SpecMerge == Init /\ [][NextMerge]_vars

----------------------------------------------------------------------------
(* The requests that carry valid and invalid payloads, on every route with a
   validator *)

ValidationTokens == {SignToken(1), SignToken(2)}

ValidationCreateBodies ==
    { [title |-> Str_Geo, questions |-> <<Q_two>>],
      [title |-> Str_ab, questions |-> <<Q_two>>],
      [title |-> Str_Geo, questions |-> <<Q_out>>] }

ValidationUpdateBodies == { [isPublic |-> TRUE], [owner |-> 3], [title |-> Str_ab] }

ValidationRegisterBodies ==
    { [username |-> Str_ali, email |-> Str_mailA, password |-> Str_password],
      [username |-> Str_ali, email |-> Str_mailA, password |-> Str_ali],
      [email |-> Str_mailA, password |-> Str_password] }

ValidationProfileBodies == { [username |-> Str_bob], [role |-> "admin"], [email |-> Str_bob] }

ValidationLoginBodies ==
    { [email |-> Str_mailA, password |-> Str_password],
      [email |-> Str_mailA],
      [email |-> Str_ali, password |-> Str_password] }

\* One request at a time.
NextValidation ==
    \/ /\ AllIdle
       /\ \/ \E t \in ValidationTokens, b \in ValidationCreateBodies : CreateResource(t, b)
          \/ \E t \in ValidationTokens, id \in IdParams, b \in ValidationUpdateBodies :
                UpdateResourceBegin("h1", t, id, b)
          \/ \E b \in ValidationRegisterBodies : RegisterBegin("h1", b)
          \/ \E t \in ValidationTokens, b \in ValidationProfileBodies :
                UpdateProfileBegin("h1", t, b)
          \/ \E b \in ValidationLoginBodies : Login(b)
    \/ UpdateResourceWrite("h1")
    \/ RegisterCreate("h1")
    \/ UpdateProfileCheck("h1")
    \/ UpdateProfileWrite("h1")

SpecValidation == InitUsers /\ [][NextValidation]_vars

----------------------------------------------------------------------------
(* createResource and register at the grain of their awaits: the store
   write, then the continuation that dispatches the notification and sends
   the response *)

\* authenticate, validateBody, then createResource through the await of
\* Quiz.create; a request that fails before the write is answered at once.
CreateResourceStore(h, token, body) ==
    LET rq == [op |-> "create", token |-> token, id |-> 0, body |-> body]
        auth == Authenticate(token)
        doc == CastQuizFields(NewQuizDoc(CreateResourceValue(body), auth.user))
              @@ [createdAt |-> now, updatedAt |-> now]
    IN  /\ slot[h] = Idle
        /\ IF auth.status # 0 \/ CreateResourceErrors(body) # {} \/ QuizDocErrors(doc) # {}
           THEN CreateResource(token, body)
           ELSE /\ nextQuizId <= MaxQuizzes
                /\ quizzes' = (nextQuizId :> doc) @@ quizzes
                /\ nextQuizId' = nextQuizId + 1
                /\ slot' = [slot EXCEPT ![h] =
                      [pc |-> "create.respond", rq |-> rq, user |-> auth.user._id,
                       quiz |-> QuizDoc(quizzes', nextQuizId)]]
                /\ last' = Reply(rq, auth.user._id, 0, "", NoData)
                /\ trace' = AuthenticateTrace(token)
                      \o <<"validateBody", "createResource", "Quiz.create">>
                /\ UNCHANGED <<users, nextUserId, now, notifier>>

\* Mutant of CreateResourceRespond: the handler awaits the send, and
\* responds once it settled.
CreateResourceRespond_Awaits(h) ==
    /\ UNCHANGED <<users, nextUserId, quizzes, nextQuizId, now>>
    /\ \/ /\ slot[h].pc = "create.respond"
          /\ notifier' = SendEmail(notifier)
          /\ slot' = [slot EXCEPT ![h].pc = "create.await"]
          /\ trace' = <<"sendQuizCreatedEmail">>
          /\ UNCHANGED last
       \/ /\ slot[h].pc = "create.await"
          /\ notifier.pending = 0
          /\ slot' = [slot EXCEPT ![h] = Idle]
          /\ last' = Reply(slot[h].rq, slot[h].user, 201, "",
                           [kind |-> "quiz", resource |-> slot[h].quiz])
          /\ trace' = <<>>
          /\ UNCHANGED notifier

\* createResource after Quiz.create: sendQuizCreatedEmail(...).catch(...),
\* not awaited, then res.status(201).
CreateResourceRespond(h) ==
    /\ slot[h].pc = "create.respond"
    /\ notifier' = SendEmail(notifier)
    /\ slot' = [slot EXCEPT ![h] = Idle]
    /\ last' = Reply(slot[h].rq, slot[h].user, 201, "",
                     [kind |-> "quiz", resource |-> slot[h].quiz])
    /\ trace' = <<"sendQuizCreatedEmail">>
    /\ UNCHANGED <<users, nextUserId, quizzes, nextQuizId, now>>

\* register from bcrypt.hash through the await of User.create; a duplicate
\* key is answered at once.
RegisterStore(h) ==
    LET value == slot[h].value
        doc == [username |-> value.username, email |-> value.email,
                passwordHash |-> Hash(value.password), role |-> "user"]
    IN  /\ slot[h].pc = "register"
        /\ IF UniqueViolations(doc, 0) # {}
           THEN RegisterCreate(h)
           ELSE /\ nextUserId <= MaxUsers
                /\ users' = (nextUserId :> doc) @@ users
                /\ nextUserId' = nextUserId + 1
                /\ slot' = [slot EXCEPT ![h] =
                      [pc |-> "register.respond", rq |-> slot[h].rq, user |-> nextUserId,
                       json |-> UserJson(nextUserId, doc)]]
                /\ last' = Reply(slot[h].rq, nextUserId, 0, "", NoData)
                /\ trace' = <<"bcrypt.hash", "User.create">>
                /\ UNCHANGED <<quizzes, nextQuizId, now, notifier>>

\* register after User.create: sendWelcomeEmail(...).catch(...), not
\* awaited, jwt.sign, then res.status(201).
RegisterRespond(h) ==
    /\ slot[h].pc = "register.respond"
    /\ notifier' = SendEmail(notifier)
    /\ slot' = [slot EXCEPT ![h] = Idle]
    /\ last' = Reply(slot[h].rq, slot[h].user, 201, "",
                     [kind |-> "auth", user |-> slot[h].json,
                      token |-> SignToken(slot[h].user)])
    /\ trace' = <<"sendWelcomeEmail">>
    /\ UNCHANGED <<users, nextUserId, quizzes, nextQuizId, now>>

NotifierCreateBodies ==
    { [title |-> Str_Geo, questions |-> <<Q_two>>],
      [title |-> Str_ab, questions |-> <<Q_two>>] }

NotifierRegisterBodies ==
    { [username |-> Str_ali, email |-> Str_mailA, password |-> Str_password],
      [username |-> Str_bob, email |-> Str_mailA, password |-> Str_password] }

\* The process starts with or without a mail transport.
InitNotifier ==
    /\ users = [u \in {1} |-> SeedUsers[u]]
    /\ nextUserId = 2
    /\ quizzes = <<>>
    /\ nextQuizId = 1
    /\ now = 0
    /\ slot = [h \in Slots |-> Idle]
    /\ last = NoRequest
    /\ trace = <<>>
    /\ notifier \in {NewNotifier(FALSE), NewNotifier(TRUE)}

NextNotifier ==
    \/ \E h \in Slots, b \in NotifierCreateBodies : CreateResourceStore(h, SignToken(1), b)
    \/ \E h \in Slots : CreateResourceRespond(h)
    \/ \E h \in Slots, b \in NotifierRegisterBodies : RegisterBegin(h, b)
    \/ \E h \in Slots : RegisterStore(h)
    \/ \E h \in Slots : RegisterRespond(h)
    \/ \E delivered \in BOOLEAN : MailSettle(delivered)

\* The event loop runs the continuation of a store call that returned; a
\* send in flight need never settle.
SpecNotifier ==
    /\ InitNotifier
    /\ [][NextNotifier]_vars
    /\ \A h \in Slots : WF_vars(CreateResourceRespond(h)) /\ WF_vars(RegisterRespond(h))

----------------------------------------------------------------------------
(* Properties of the Resource Pipeline, checked under Spec *)

\* The role of the identity a request was resolved to.
RoleOf(uid) == IF uid \in DOMAIN users THEN users[uid].role ELSE "none"

\* The request l is a PUT or DELETE of a quiz of `store` by an authenticated
\* identity that neither owns it nor is an admin.
NonOwnerMutation(l, store) ==
    /\ l.op \in {"update", "delete"}
    /\ l.user # 0
    /\ l.id \in DOMAIN store
    /\ store[l.id].owner # l.user
    /\ RoleOf(l.user) # "admin"

\* A PUT's body passes updateResourceSchema (other requests carry none).
BodyAccepted(l) == l.op = "update" => UpdateResourceErrors(l.body) = {}

\* C1, as amended: a PUT whose body passes the validator, or a DELETE, of an
\* existing quiz by an authenticated non-owner, non-admin identity is
\* answered 403 and leaves the Quiz Store as it was.
C1_NonOwnerForbidden ==
    [][(NonOwnerMutation(last', quizzes) /\ BodyAccepted(last'))
          => (last'.status = 403 /\ quizzes' = quizzes)]_vars

\* C1 as stated: every PUT or DELETE of an existing quiz by a non-owner,
\* non-admin identity is answered 403 and leaves the store as it was.
C1_AsStated ==
    [][NonOwnerMutation(last', quizzes)
          => (last'.status = 403 /\ quizzes' = quizzes)]_vars

\* C1's case: bob's PUT, with a valid body, of a quiz of alice was answered 403.
C1_Witness ==
    /\ NonOwnerMutation(last, quizzes)
    /\ last.op = "update"
    /\ BodyAccepted(last)
    /\ last.status = 403

\* The request l names, by a well-formed id, a quiz that `store` does not
\* hold, and its caller passed authentication (play asks for none).
MissingQuizRequest(l, store) ==
    /\ l.op \in {"get", "update", "delete", "play"}
    /\ IdParamOk(l.id)
    /\ l.id \notin DOMAIN store
    /\ (l.op # "play" => l.user # 0)

\* C2, as amended: get, update (with a body that passes the validator),
\* delete and play of a well-formed id that matches no quiz answer 404 to
\* every caller that passed authentication, and a request for a missing
\* quiz is never answered 403.
C2_MissingIsNotFound ==
    [][AllIdle =>
         /\ (MissingQuizRequest(last', quizzes) /\ BodyAccepted(last'))
               => last'.status = 404
         /\ (last'.op \in {"get", "update", "delete", "play"}
               /\ last'.id \notin DOMAIN quizzes) => last'.status # 403]_vars

\* C2 as stated: the same for every update, whatever its body.
C2_AsStated ==
    [][(AllIdle /\ MissingQuizRequest(last', quizzes)) => last'.status = 404]_vars

\* C2's case: a non-admin identity's PUT of a missing quiz was answered 404.
C2_Witness ==
    /\ MissingQuizRequest(last, quizzes)
    /\ last.op = "update"
    /\ RoleOf(last.user) = "user"
    /\ last.status = 404

\* The ids of the quizzes a list response carries.
ListedIds(l) == {l.data.resources[i]._id : i \in 1..Len(l.data.resources)}

\* C6: GET /resource answers a non-admin identity with exactly the quizzes
\* it owns and an admin with every quiz of the store.
C6_ListScope ==
    (last.op = "list" /\ last.user # 0) =>
        /\ last.status = 200
        /\ last.data.count = Len(last.data.resources)
        /\ Cardinality(ListedIds(last)) = last.data.count
        /\ ListedIds(last) =
              IF RoleOf(last.user) = "admin" THEN DOMAIN quizzes
              ELSE {id \in DOMAIN quizzes : quizzes[id].owner = last.user}
        /\ \A i \in 1..Len(last.data.resources) :
              LET r == last.data.resources[i]
              IN  /\ r.owner._id = quizzes[r._id].owner
                  /\ r.isPublic = quizzes[r._id].isPublic

\* C6's case: a non-admin identity listed its one quiz while the store held
\* a public quiz of another identity.
C6_Witness ==
    /\ last.op = "list"
    /\ RoleOf(last.user) = "user"
    /\ last.status = 200
    /\ last.data.count = 1
    /\ \E id \in DOMAIN quizzes : quizzes[id].owner # last.user /\ quizzes[id].isPublic

\* The response l carries quiz id of the store, its owner populated.
CarriesQuiz(l, id) ==
    /\ l.data.kind = "quiz"
    /\ l.data.resource._id = id
    /\ l.data.resource.owner._id = quizzes[id].owner
    /\ \A f \in DOMAIN quizzes[id] \ {"owner"} : l.data.resource[f] = quizzes[id][f]

\* C7: GET /resource/:id of an existing quiz answers an authenticated
\* identity 200 with the quiz iff the quiz is public or the identity owns it
\* or is an admin, and 403 otherwise.
C7_GetVisibility ==
    (last.op = "get" /\ last.user # 0 /\ last.id \in DOMAIN quizzes) =>
        IF \/ quizzes[last.id].isPublic
           \/ quizzes[last.id].owner = last.user
           \/ RoleOf(last.user) = "admin"
        THEN last.status = 200 /\ CarriesQuiz(last, last.id)
        ELSE last.status = 403

\* C7's case: a non-admin identity asked for another identity's private quiz.
C7_Witness ==
    /\ last.op = "get"
    /\ RoleOf(last.user) = "user"
    /\ last.id \in DOMAIN quizzes
    /\ quizzes[last.id].owner # last.user
    /\ ~quizzes[last.id].isPublic
    /\ last.status = 403

\* The response l carries the play projection of quiz id of the store.
CarriesPlay(l, id) ==
    /\ l.data.kind = "play"
    /\ l.data.resource._id = id
    /\ l.data.resource.title = quizzes[id].title
    /\ Len(l.data.resource.questions) = Len(quizzes[id].questions)
    /\ \A i \in 1..Len(quizzes[id].questions) :
          /\ l.data.resource.questions[i].text = quizzes[id].questions[i].text
          /\ l.data.resource.questions[i].options = quizzes[id].questions[i].options
          /\ l.data.resource.questions[i].correctIndex = quizzes[id].questions[i].correctIndex

\* C8: GET /resource/:id/play of an existing quiz answers 200 with the play
\* projection iff the quiz is public or the caller is identified as its
\* owner or as an admin; a caller without identity gets 403 for a private quiz.
C8_PlayVisibility ==
    (last.op = "play" /\ last.id \in DOMAIN quizzes) =>
        /\ (last.token.kind # "valid" => last.user = 0)
        /\ IF \/ quizzes[last.id].isPublic
              \/ (last.user # 0 /\ quizzes[last.id].owner = last.user)
              \/ (last.user # 0 /\ RoleOf(last.user) = "admin")
           THEN last.status = 200 /\ CarriesPlay(last, last.id)
           ELSE last.status = 403

\* C8's case: a request whose token did not verify asked to play a private quiz.
C8_Witness ==
    /\ last.op = "play"
    /\ last.token.kind = "bad"
    /\ last.id \in DOMAIN quizzes
    /\ ~quizzes[last.id].isPublic
    /\ last.status = 403

\* C9: POST /resource by an authenticated identity with a payload that
\* passes the validator answers 201 and adds one quiz, owned by the caller
\* whatever the payload holds, and private when the payload names no isPublic.
C9_CreateOwnedByCaller ==
    [][(last'.op = "create" /\ last'.user # 0 /\ CreateResourceErrors(last'.body) = {})
          => /\ last'.status = 201
             /\ \A id \in DOMAIN quizzes : id \in DOMAIN quizzes' /\ quizzes'[id] = quizzes[id]
             /\ \E id \in DOMAIN quizzes' \ DOMAIN quizzes :
                   /\ DOMAIN quizzes' = DOMAIN quizzes \cup {id}
                   /\ quizzes'[id].owner = last'.user
                   /\ last'.data.resource._id = id
                   /\ last'.data.resource.owner = last'.user
                   /\ "isPublic" \notin DOMAIN last'.body => ~quizzes'[id].isPublic]_vars

\* C9's case: a quiz was created from a payload that names another identity
\* as owner and no isPublic.
C9_Witness ==
    /\ last.op = "create"
    /\ last.status = 201
    /\ "owner" \in DOMAIN last.body
    /\ last.body.owner # last.user
    /\ "isPublic" \notin DOMAIN last.body
    /\ quizzes[last.data.resource._id].owner = last.user

\* C10: the owner of a quiz never changes: a step keeps the owner of every
\* quiz it keeps, and a quiz that appears is a new one, owned by the
\* identity whose create request the step served.
C10_OwnerImmutable ==
    [][\A id \in DOMAIN quizzes' :
          IF id \in DOMAIN quizzes
          THEN quizzes'[id].owner = quizzes[id].owner
          ELSE /\ id = nextQuizId
               /\ last'.op = "create"
               /\ quizzes'[id].owner = last'.user]_vars

\* C10's case: an admin's update, its payload naming a third identity as
\* owner, was applied to a quiz of another identity.
C10_Witness ==
    /\ last.op = "update"
    /\ last.status = 200
    /\ RoleOf(last.user) = "admin"
    /\ "owner" \in DOMAIN last.body
    /\ last.id \in DOMAIN quizzes
    /\ quizzes[last.id].owner \notin {last.user, last.body.owner}

----------------------------------------------------------------------------
(* Properties of the Credential Store, checked under SpecUsers *)

\* An identity of `store` holds the email or the username of the payload.
RegisterCollides(l, store) ==
    \E v \in DOMAIN store :
        store[v].email = l.body.email \/ store[v].username = l.body.username

\* The step added one identity, with the payload's username and email and
\* the role user, and kept the others.
RegisterCreated(l, before, after) ==
    /\ l.user \notin DOMAIN before
    /\ DOMAIN after = DOMAIN before \cup {l.user}
    /\ \A v \in DOMAIN before : after[v] = before[v]
    /\ after[l.user].username = l.body.username
    /\ after[l.user].email = l.body.email
    /\ after[l.user].role = "user"

\* C3: a register request that is answered while an identity with its email
\* or its username exists, however late that identity was created, is
\* answered 400 and creates nothing; the one that is answered 201 created
\* its identity while none existed. Of two requests with one email or one
\* username at most one therefore creates an identity.
C3_RegisterRace ==
    [][(last'.op = "register" /\ RegisterErrors(last'.body) = {} /\ last'.status # 0)
          => IF RegisterCollides(last', users)
             THEN last'.status = 400 /\ users' = users
             ELSE last'.status = 201 /\ RegisterCreated(last', users, users')]_vars

\* C3's case: the insert of a register request found the email taken by an
\* identity created after the request's own lookup, and was answered 400
\* through the duplicate key error.
C3_Witness ==
    /\ last.op = "register"
    /\ last.status = 400
    /\ last.error = "Email already exists."
    /\ \E v \in DOMAIN users : v # 1 /\ users[v].email = last.body.email

\* No two identities share a username or an email.
UniqueIdentities ==
    \A u, v \in DOMAIN users :
        u # v => (users[u].username # users[v].username /\ users[u].email # users[v].email)

\* An identity of `store` other than the caller holds the username or the
\* email the payload asks for.
ProfileCollides(l, store) ==
    \E v \in DOMAIN store \ {l.user} :
        \E f \in {"username", "email"} \cap DOMAIN l.body : store[v][f] = l.body[f]

\* C4: at all times no two identities share a username or an email, under
\* every interleaving of register and profile update requests; a profile
\* update that is answered while another identity holds the username or the
\* email it asks for is answered 400 and leaves every identity as it was.
C4_UniqueIdentities ==
    /\ []UniqueIdentities
    /\ [][(/\ last'.op = "profile"
           /\ last'.user # 0
           /\ UpdateProfileErrors(last'.body) = {}
           /\ last'.status # 0
           /\ ProfileCollides(last', users))
             => (last'.status = 400 /\ users' = users)]_vars

\* C4's case: the write of a profile update found the username taken by an
\* identity that took it after the update's own lookup, and was answered
\* 400 through the duplicate key error.
C4_Witness ==
    /\ last.op = "profile"
    /\ last.status = 400
    /\ last.error = "Username already exists."
    /\ ProfileCollides(last, users)
    /\ Cardinality(DOMAIN users) = MaxUsers

----------------------------------------------------------------------------
(* Properties of the stored questions, checked under SpecContent *)

\* The bounds of a question list: 1..100 questions, 2..6 options each, the
\* correct index naming one of the question's options.
QuestionsInBounds(qs) ==
    /\ Len(qs) >= 1
    /\ Len(qs) <= 100
    /\ \A i \in 1..Len(qs) :
          /\ Len(qs[i].options) >= 2
          /\ Len(qs[i].options) <= 6
          /\ qs[i].correctIndex >= 0
          /\ qs[i].correctIndex < Len(qs[i].options)

\* C5: every stored quiz has 1..100 questions, each with 2..6 options and
\* 0 <= correctIndex < number of options; a create or update request of an
\* authenticated identity whose question list violates a bound is answered
\* 400 and writes nothing.
C5_QuestionBounds ==
    /\ [](\A id \in DOMAIN quizzes : QuestionsInBounds(quizzes[id].questions))
    /\ [][(/\ last'.op \in {"create", "update"}
           /\ last'.user # 0
           /\ "questions" \in DOMAIN last'.body
           /\ ~QuestionsInBounds(last'.body.questions))
             => (last'.status = 400 /\ quizzes' = quizzes)]_vars

\* C5's case: the owner of a stored quiz asked to replace its questions by
\* 101 of them and was answered 400.
C5_Witness ==
    /\ last.op = "update"
    /\ last.id \in DOMAIN quizzes
    /\ quizzes[last.id].owner = last.user
    /\ Len(last.body.questions) = 101
    /\ last.status = 400
    /\ QuestionsInBounds(quizzes[last.id].questions)

----------------------------------------------------------------------------
(* Properties of the update of a quiz, checked under SpecMerge *)

\* C11: a PUT /resource/:id answered 200 for a stored quiz writes exactly
\* the fields among title, description, isPublic and questions that the
\* payload supplies, a falsy value included, leaves the other ones, the
\* owner and createdAt as they were, sets updatedAt to the time of the
\* write, and touches no other quiz.
C11_PartialMerge ==
    [][(last'.op = "update" /\ last'.status = 200 /\ last'.id \in DOMAIN quizzes)
          => /\ DOMAIN quizzes' = DOMAIN quizzes
             /\ \A id \in DOMAIN quizzes \ {last'.id} : quizzes'[id] = quizzes[id]
             /\ \A f \in QuizFields :
                   quizzes'[last'.id][f] =
                      IF f \in DOMAIN last'.body THEN last'.body[f] ELSE quizzes[last'.id][f]
             /\ quizzes'[last'.id].owner = quizzes[last'.id].owner
             /\ quizzes'[last'.id].createdAt = quizzes[last'.id].createdAt
             /\ quizzes'[last'.id].updatedAt = now
             /\ quizzes'[last'.id].updatedAt >= quizzes[last'.id].updatedAt]_vars

\* C11's case: an update that supplies isPublic false alone, made after the
\* clock advanced, was applied to a public quiz with a description.
C11_Witness ==
    /\ last.op = "update"
    /\ last.status = 200
    /\ last.body = [isPublic |-> FALSE]
    /\ last.id \in DOMAIN quizzes
    /\ ~quizzes[last.id].isPublic
    /\ quizzes[last.id].description = Str_desc
    /\ quizzes[last.id].updatedAt > quizzes[last.id].createdAt

----------------------------------------------------------------------------
(* Properties of the Validator's place in the pipeline, checked under
   SpecValidation *)

\* The response l is the Validator's: validateBody or validateParams sent it.
ValidationFailed(l) ==
    l.status = 400 /\ l.error \in {"Validation failed", "Invalid parameters"}

Controllers ==
    {"createResource", "getAllResources", "getPublicResources", "getResourceById",
     "getResourceForPlay", "updateResource", "deleteResource", "register", "login",
     "getProfile", "updateProfile"}

\* The store calls of a trace, in their order.
StoreCalls(tr) ==
    SelectSeq(tr, LAMBDA e : e \in {"User.findById", "User.findOne", "User.create",
                                     "User.findByIdAndUpdate", "Quiz.create", "Quiz.find",
                                     "Quiz.findById", "Quiz.findByIdAndUpdate",
                                     "Quiz.findByIdAndDelete"})

----------------------------------------------------------------------------
(* Properties of the Notifier, checked under SpecNotifier *)

\* The step answers a register or create request with 201.
Answers201(l, op) == l.op = op /\ l.status = 201

\* C13: register and create-quiz answer 201 with the record stored whether
\* there is a transport or none and whatever becomes of the send: the
\* continuation of a successful store write always answers 201, the record
\* it names is in the store, the settling of a send (delivered or failed)
\* changes no store and no response, and every promise sendEmail returned
\* is resolved, to a boolean, never rejected.
C13_NotificationIndependent ==
    /\ [](\A o \in notifier.settled : o.state = "resolved" /\ o.value \in BOOLEAN)
    /\ [][/\ \A h \in Slots :
               (slot[h].pc \in {"create.respond", "register.respond"} /\ slot'[h] # slot[h])
                  => /\ last'.status = 201
                     /\ last'.user = slot[h].user
                     /\ IF slot[h].pc = "create.respond"
                        THEN /\ last'.data.resource._id \in DOMAIN quizzes'
                             /\ quizzes'[last'.data.resource._id].owner = last'.user
                        ELSE last'.data.user._id \in DOMAIN users'
          /\ notifier'.pending < notifier.pending
                  => UNCHANGED <<users, quizzes, last, slot>>]_vars

\* C13's case: a create request was answered 201 and the transport then
\* failed to deliver its notification.
C13_Witness ==
    /\ Answers201(last, "create")
    /\ last.data.resource._id \in DOMAIN quizzes
    /\ notifier.transporter
    /\ notifier.pending = 0
    /\ notifier.settled = {Resolved(FALSE)}

\* C14: once the store write of register or create-quiz succeeded, its
\* handler eventually sends its response, 201, though no send in flight
\* ever settles; the step that sends it waits for no send.
C14_ResponseDetached ==
    /\ \A h \in Slots :
          (slot[h].pc \in {"create.respond", "register.respond"}) ~> (slot[h] = Idle)
    /\ [][\A h \in Slots :
             (slot[h].pc \in {"create.respond", "register.respond"} /\ slot'[h] # slot[h])
                => (slot'[h] = Idle /\ last'.status = 201)]_vars

\* C14's case: a register request was answered 201 while its welcome mail
\* and an earlier notification were still in flight.
C14_Witness ==
    /\ Answers201(last, "register")
    /\ notifier.pending = 2
    /\ notifier.settled = {}

----------------------------------------------------------------------------
(* Every route of the application, with every kind of Authorization
   header; the identities 2..MaxUsers exist once registered *)

AuthTokens ==
    {NoToken, BasicToken, BadToken, ExpiredToken} \cup {SignToken(u) : u \in 1..MaxUsers}

AuthCreateBodies == { [title |-> Str_Geo, isPublic |-> TRUE, questions |-> <<Q_two>>] }

AuthUpdateBodies == { [title |-> Str_Geo] }

AuthRegisterBodies ==
    { [username |-> Str_ali, email |-> Str_mailA, password |-> Str_password] }

AuthProfileBodies == { [email |-> Str_mailB] }

AuthLoginBodies ==
    { [email |-> Str_mailA, password |-> Str_password],
      [email |-> Str_mailA, password |-> Str_wrong] }

NextAuth ==
    \/ /\ AllIdle
       /\ \/ \E t \in AuthTokens, b \in AuthCreateBodies : CreateResource(t, b)
          \/ \E t \in AuthTokens : GetAllResources(t)
          \/ \E t \in AuthTokens, id \in IdParams : GetResourceById(t, id)
          \/ \E t \in AuthTokens, id \in IdParams, l \in Lookups :
                \* User.findById is called for a token that verifies, and only then
                /\ (l = "throws" => t.kind = "valid")
                /\ GetResourceForPlay(t, id, l)
          \/ \E t \in AuthTokens, id \in IdParams, b \in AuthUpdateBodies :
                UpdateResourceBegin("h1", t, id, b)
          \/ \E t \in AuthTokens, id \in IdParams : DeleteResourceBegin("h1", t, id)
          \/ \E b \in AuthRegisterBodies : RegisterBegin("h1", b)
          \/ \E t \in AuthTokens : GetProfile(t)
          \/ \E t \in AuthTokens, b \in AuthProfileBodies : UpdateProfileBegin("h1", t, b)
          \/ \E b \in AuthLoginBodies : Login(b)
          \/ GetPublicResources
    \/ UpdateResourceWrite("h1")
    \/ DeleteResourceWrite("h1")
    \/ RegisterCreate("h1")
    \/ UpdateProfileCheck("h1")
    \/ UpdateProfileWrite("h1")

SpecAuth == InitUsers /\ [][NextAuth]_vars

\* Whether a trace enters a controller.
EntersController(tr) == \E i \in 1..Len(tr) : tr[i] \in Controllers

\* The number of times a call occurs in a trace.
Count(tr, call) == Len(SelectSeq(tr, LAMBDA e : e = call))

\* C15: a step that runs authenticate enters the controller only when the
\* bearer token verifies and names an identity of the store, and then
\* req.user is that identity (also in the handler it leaves suspended);
\* with no header, a non-Bearer header, a bad or expired token or a token
\* of an unknown identity the answer is 401, no controller is entered and
\* nothing is written or left suspended.
C15_AuthenticateGuards ==
    [][ (trace' # <<>> /\ trace'[1] = "authenticate") =>
          LET token == last'.token
              resolved == token.kind = "valid" /\ token.uid \in DOMAIN users
          IN  /\ EntersController(trace') =>
                    /\ resolved
                    /\ last'.user = token.uid
                    /\ \A h \in Slots :
                          /\ (slot'[h] # slot[h] /\ "user" \in DOMAIN slot'[h]) =>
                                slot'[h].user = token.uid
                          /\ (slot'[h] # slot[h] /\ "reqUser" \in DOMAIN slot'[h]) =>
                                slot'[h].reqUser = UserDoc(token.uid)
              /\ ~resolved =>
                    /\ last'.status = 401
                    /\ ~EntersController(trace')
                    /\ Range(trace') \subseteq {"authenticate", "User.findById"}
                    /\ UNCHANGED <<users, quizzes, slot, notifier>> ]_vars

\* The token of an identity that registered is served as that identity.
C15_Witness ==
    /\ last.op = "getProfile"
    /\ last.token = SignToken(2)
    /\ last.status = 200
    /\ last.user = 2
    /\ trace = <<"authenticate", "User.findById", "getProfile", "User.findById">>

\* C16: a step that runs optionalAuth is never answered by it: next() is
\* called once and the next middleware runs, req.user being the identity of
\* the token when the token verifies, the lookup returns and the identity
\* exists, and unset in every other case.
C16_OptionalAuthProceeds ==
    [][ (trace' # <<>> /\ trace'[1] = "optionalAuth") =>
          LET token == last'.token
              failed == "catch" \in Range(trace')
              resolved == token.kind = "valid" /\ token.uid \in DOMAIN users /\ ~failed
          IN  /\ Count(trace', "next") = 1
              /\ Count(trace', "validateParams") = 1
              /\ last'.status \in {200, 400, 403, 404}
              /\ last'.user = (IF resolved THEN token.uid ELSE 0)
              /\ token.kind \in {"bad", "expired"} => failed ]_vars

\* A public quiz played with a valid token whose lookup failed: the request
\* is served as anonymous.
C16_Witness ==
    /\ last.op = "play"
    /\ last.token = SignToken(1)
    /\ "catch" \in Range(trace)
    /\ last.user = 0
    /\ last.status = 200

\* The identities a response carries: the user of an account response and
\* the owner summaries of the quizzes of a quiz response (createResource
\* answers with the owner's id alone).
ResponseIdentities(l) ==
    CASE l.data.kind \in {"auth", "user"} -> {l.data.user}
      [] l.data.kind = "list" ->
            {l.data.resources[i].owner : i \in 1..Len(l.data.resources)}
      [] l.data.kind \in {"quiz", "play"} /\ l.op # "create" -> {l.data.resource.owner}
      [] OTHER -> {}

\* C17: no identity carried by a response (of register, login, GET and PUT
\* /users/profile, or as the owner summary of a quiz) has a passwordHash
\* field.
C17_NoPasswordHash ==
    \A d \in ResponseIdentities(last) : "passwordHash" \notin DOMAIN d

\* A quiz fetched by id carries the summary of an owner whose stored record
\* holds a password hash.
C17_Witness ==
    /\ last.op = "get"
    /\ last.status = 200
    /\ last.data.kind = "quiz"
    /\ last.data.resource.owner.username = Str_ali
    /\ "passwordHash" \in DOMAIN users[last.data.resource.owner._id]

\* The credentials of a register payload, as a login payload.
Credentials(b) == [email |-> b.email, password |-> b.password]

\* The identities that register created from payload b: the store starts
\* with the admin alone and no request of SpecAuth changes a username.
Registrant(b) == {i \in DOMAIN users : users[i].username = b.username}

----------------------------------------------------------------------------
(* Quizzes created, fetched by id and updated by two identities *)

\* A question whose text carries surrounding whitespace.
Q_padded == [text |-> <<" ", "Q", " ">>, options |-> << <<"P">>, <<"L">> >>, correctIndex |-> 1]
\* A question with an option that carries surrounding whitespace.
Q_paddedOption == [text |-> <<"Q">>, options |-> << <<"P", " ">>, <<"L">> >>, correctIndex |-> 1]
\* A question with a space inside its text and its options in no sorted order.
Q_spaced == [text |-> <<"Q", " ", "3">>, options |-> << <<"z">>, <<"a">>, <<"m">> >>,
             correctIndex |-> 1]

RoundTripCreateBodies ==
    {[title |-> Str_Geo, questions |-> qs] :
        qs \in { <<Q_two>>, <<Q_spaced, Q_two>>, <<Q_two, Q_spaced>>,
                 <<Q_padded>>, <<Q_paddedOption>> }}

RoundTripUpdateBodies == { [questions |-> <<Q_three>>], [title |-> Str_Math] }

RoundTripTokens == {SignToken(2), SignToken(3)}

NextRoundTrip ==
    \/ /\ AllIdle
       /\ \/ \E t \in RoundTripTokens, b \in RoundTripCreateBodies : CreateResource(t, b)
          \/ \E t \in RoundTripTokens, id \in IdParams : GetResourceById(t, id)
          \/ \E t \in RoundTripTokens, id \in IdParams, b \in RoundTripUpdateBodies :
                UpdateResourceBegin("h1", t, id, b)
    \/ UpdateResourceWrite("h1")

SpecRoundTrip == Init /\ [][NextRoundTrip]_vars

\* C19: createResource stores the questions of the validated payload as
\* they are (order, text, options and their order, correctIndex) under a
\* fresh id owned by the requester; the stored questions of a quiz change
\* in no step but an update of that quiz; getResourceById answers its owner
\* with the stored questions. A quiz fetched by its owner with no update
\* since its creation therefore carries the questions of its create payload.
C19_CreateGetRoundTrip ==
    [][ /\ (last'.op = "create" /\ last'.status = 201) =>
              LET id == last'.data.resource._id
              IN  /\ id \notin DOMAIN quizzes
                  /\ id \in DOMAIN quizzes'
                  /\ quizzes'[id].owner = last'.user
                  /\ quizzes'[id].questions = last'.body.questions
                  /\ last'.data.resource.questions = last'.body.questions
        /\ \A id \in DOMAIN quizzes :
              (id \in DOMAIN quizzes' /\ quizzes'[id].questions # quizzes[id].questions) =>
                  (last'.op = "update" /\ last'.id = id /\ last'.status = 200)
        /\ (last'.op = "get" /\ last'.status = 200 /\ quizzes[last'.id].owner = last'.user) =>
              last'.data.resource.questions = quizzes[last'.id].questions ]_vars

\* A quiz of two questions fetched by its owner with the questions, options
\* and correctIndex of its payload.
C19_Witness ==
    /\ last.op = "get"
    /\ last.status = 200
    /\ last.user = 2
    /\ last.data.resource.owner._id = 2
    /\ last.data.resource.questions = <<Q_spaced, Q_two>>

\* C20: no step removes an identity or changes its role or its password
\* hash; a step that changes a record is the write of PUT /users/profile
\* made with the token of that record's holder, and it changes username and
\* email alone; an identity appears only by register, with role user
\* whatever the payload carries.
C20_IdentityIntegrity ==
    [][ /\ \A u \in DOMAIN users :
              /\ u \in DOMAIN users'
              /\ users'[u].role = users[u].role
              /\ users'[u].passwordHash = users[u].passwordHash
              /\ DOMAIN users'[u] = DOMAIN users[u]
              /\ users'[u] # users[u] =>
                    /\ last'.op = "profile"
                    /\ last'.status = 200
                    /\ last'.token = SignToken(u)
                    /\ \A v \in DOMAIN users \ {u} : users'[v] = users[v]
        /\ \A u \in DOMAIN users' \ DOMAIN users :
              /\ last'.op = "register"
              /\ last'.status = 201
              /\ users'[u].role = "user"
              /\ users'[u].passwordHash = Hash(last'.body.password) ]_vars

\* An identity registered with role admin in its payload holds role user,
\* and has since changed its own email with a payload that carries a role
\* and a password hash.
C20_Witness ==
    /\ last.op = "profile"
    /\ last.status = 200
    /\ "role" \in DOMAIN last.body
    /\ last.user \in DOMAIN users
    /\ users[last.user].email = Str_mailB
    /\ users[last.user].role = "user"
    /\ users[last.user].username = Str_bob

----------------------------------------------------------------------------
(* Two handlers at a time on one quiz: its owner and the admin update and
   delete it while it is read *)

RaceCreateBodies == { [title |-> Str_Geo, isPublic |-> TRUE, questions |-> <<Q_two>>] }

RaceUpdateBodies == { [title |-> Str_Math], [title |-> Str_desc, isPublic |-> FALSE] }

\* The quiz the handlers contend for: the first one created.
RaceIds == {1}

\* The caller of each handler: the owner of the quiz and the admin.
RaceToken(h) == IF h = "h1" THEN SignToken(2) ELSE SignToken(1)

NextRace ==
    \/ \E b \in RaceCreateBodies : CreateResource(SignToken(2), b)
    \/ \E h \in Slots, id \in RaceIds, b \in RaceUpdateBodies :
          UpdateResourceBegin(h, RaceToken(h), id, b)
    \/ \E h \in Slots : UpdateResourceWrite(h)
    \/ \E h \in Slots, id \in RaceIds : DeleteResourceBegin(h, RaceToken(h), id)
    \/ \E h \in Slots : DeleteResourceWrite(h)
    \/ \E id \in RaceIds : GetResourceById(SignToken(2), id)
    \/ \E id \in RaceIds : GetResourceForPlay(NoToken, id, "returns")
    \/ GetAllResources(SignToken(1))
    \/ GetPublicResources

SpecRace == Init /\ [][NextRace]_vars

\* The handler that took the step: the one that left its slot.
Finished(h) == slot[h] # Idle /\ slot'[h] = Idle

\* C21: the write of an update on a quiz that is in the store is answered
\* 200 whatever other update is in flight or was applied since the handler
\* read the quiz, and leaves in each field of its payload the value of that
\* payload and every other field as the store held it: of two updates the
\* one the store applies last decides the fields both wrote.
C21_LastWriteWins ==
    [][ \A h \in Slots :
          (Finished(h) /\ slot[h].pc = "update" /\ slot[h].rq.id \in DOMAIN quizzes) =>
              LET id == slot[h].rq.id
                  upd == slot[h].updateData
              IN  /\ last'.op = "update"
                  /\ last'.status = 200
                  /\ id \in DOMAIN quizzes'
                  /\ \A f \in QuizFields :
                        quizzes'[id][f] = (IF f \in DOMAIN upd THEN upd[f] ELSE quizzes[id][f])
                  /\ quizzes'[id].owner = quizzes[id].owner ]_vars

\* The admin's update was answered 200 and set the title while the owner's
\* update of the same quiz, with another title, had read the quiz and not
\* yet written.
C21_Witness ==
    /\ last.op = "update"
    /\ last.status = 200
    /\ last.user = 1
    /\ last.body = [title |-> Str_Math]
    /\ slot["h1"].pc = "update"
    /\ slot["h1"].rq.id = 1
    /\ slot["h1"].rq.body = [title |-> Str_desc, isPublic |-> FALSE]
    /\ 1 \in DOMAIN quizzes
    /\ quizzes[1].title = Str_Math

\* The quizzes that were deleted: ids are handed out once, in order, and a
\* quiz leaves the store by deleteResource alone.
Deleted(store, nextId) == {id \in 1..(nextId - 1) : id \notin DOMAIN store}

\* The ids of the quizzes a response lists.
IdsListed(l) ==
    IF l.data.kind = "list"
    THEN {l.data.resources[i]._id : i \in 1..Len(l.data.resources)}
    ELSE {}

\* C22: the write of deleteResource is answered 200 and leaves the quiz
\* absent; a deleted quiz is in the store after no step, whatever update
\* was in flight when it was deleted; no list carries it; every get, play,
\* update and delete that looks it up once it is deleted is answered 404.
C22_DeleteIsPermanent ==
    [][ /\ \A h \in Slots :
              (Finished(h) /\ slot[h].pc = "delete") =>
                  /\ last'.op = "delete"
                  /\ last'.status = 200
                  /\ slot[h].rq.id \in Deleted(quizzes', nextQuizId')
        /\ Deleted(quizzes, nextQuizId) \subseteq Deleted(quizzes', nextQuizId')
        /\ IdsListed(last') \cap Deleted(quizzes, nextQuizId) = {}
        /\ (/\ last'.op \in {"get", "play", "update", "delete"}
            /\ "Quiz.findById" \in Range(trace')
            /\ last'.id \in Deleted(quizzes, nextQuizId)) =>
               (last'.status = 404 /\ UNCHANGED <<quizzes, slot>>) ]_vars

\* The owner's update was answered after the admin deleted the quiz it had
\* read: the quiz is still absent.
C22_Witness ==
    /\ last.op = "update"
    /\ last.status # 0
    /\ last.user = 2
    /\ slot["h1"] = Idle
    /\ 1 \in Deleted(quizzes, nextQuizId)

----------------------------------------------------------------------------
(* Quizzes created at different times, switched between public and private,
   and listed *)

ListCreateBodies ==
    { [title |-> Str_Geo, isPublic |-> TRUE, questions |-> <<Q_two>>],
      [title |-> Str_Math, questions |-> <<Q_two>>] }

ListUpdateBodies == { [isPublic |-> FALSE] }

ListTokens == {SignToken(1), SignToken(2)}

NextLists ==
    \/ /\ AllIdle
       /\ \/ \E b \in ListCreateBodies : CreateResource(SignToken(2), b)
          \/ \E id \in IdParams, b \in ListUpdateBodies :
                UpdateResourceBegin("h1", SignToken(2), id, b)
          \/ \E t \in ListTokens : GetAllResources(t)
          \/ GetPublicResources
          \/ Tick
    \/ UpdateResourceWrite("h1")

SpecLists == Init /\ [][NextLists]_vars

\* Whether the quizzes of a list response are in descending order of
\* creation time.
Descending(resources) ==
    \A i, j \in 1..Len(resources) : i < j => resources[i].createdAt >= resources[j].createdAt

\* C23: the response of GET /resource/public lists, once each, the quizzes
\* whose isPublic is true in the store at the time of the call and no other;
\* the lists of GET /resource/public and of GET /resource are in descending
\* order of creation time.
C23_PublicListExactAndOrdered ==
    /\ last.op = "public" =>
          /\ last.status = 200
          /\ IdsListed(last) = {id \in DOMAIN quizzes : quizzes[id].isPublic}
          /\ Len(last.data.resources) = Cardinality(IdsListed(last))
          /\ Descending(last.data.resources)
          /\ \A i \in 1..Len(last.data.resources) :
                last.data.resources[i].createdAt = quizzes[last.data.resources[i]._id].createdAt
    /\ (last.op = "list" /\ last.status = 200) =>
          /\ Descending(last.data.resources)
          /\ \A i \in 1..Len(last.data.resources) :
                last.data.resources[i].createdAt = quizzes[last.data.resources[i]._id].createdAt

\* The public list holds the newer quiz alone: the older one was created
\* public and an update made it private.
C23_Witness ==
    /\ last.op = "public"
    /\ DOMAIN quizzes = {1, 2}
    /\ quizzes[1].createdAt < quizzes[2].createdAt
    /\ quizzes[1].title = Str_Geo
    /\ ~quizzes[1].isPublic
    /\ IdsListed(last) = {2}

----------------------------------------------------------------------------
(* Requests that end in errorHandler: a controller throws, a store call
   rejects, or express.json refuses the body *)

\* An error that carries no statusCode: a store, driver or runtime error.
RawError(name) == [name |-> name, statusCode |-> 0, code |-> 0, message |-> name]

\* The errors a store call rejects with. A Mongoose CastError carries the
\* kind of the value it could not cast.
StoreErrors ==
    { ValidationError,
      DuplicateKeyError("email"),
      RawError("CastError") @@ [kind |-> "ObjectId"],
      RawError("CastError") @@ [kind |-> "Number"],
      RawError("MongoNetworkError"),
      RawError("MongoServerError"),
      RawError("TypeError") }

\* The errors of the libraries in front of the store: jsonwebtoken and Joi.
LibraryErrors ==
    { RawError("JsonWebTokenError"),
      RawError("TokenExpiredError"),
      RawError("ValidationError") @@ [isJoi |-> TRUE] }

\* The errors express.json({ limit: '10kb' }) passes to next(): a body that
\* is no JSON (400) and a body over the limit (413), each carrying its
\* status in statusCode.
BodyParserErrors ==
    { [name |-> "SyntaxError", statusCode |-> 400, code |-> 0, message |-> "Unexpected token"],
      [name |-> "PayloadTooLargeError", statusCode |-> 413, code |-> 0,
       message |-> "request entity too large"] }

\* The controllers whose store call may reject.
FailingOps == {"create", "list", "get", "update", "delete", "register", "login"}

\* A store or library call of a controller rejects: asyncHandler passes the
\* error to next and errorHandler answers.
StoreRejects(op, err) ==
    LET rq == [op |-> op, token |-> NoToken, id |-> 0, body |-> NoBody]
    IN  /\ last' = ErrorReply(rq, 0, err)
        /\ trace' = <<op, "errorHandler", err.name>>
        /\ UNCHANGED <<users, nextUserId, quizzes, nextQuizId, now, slot, notifier>>

\* express.json refuses the body of a request before any route is entered.
BodyRejected(op, err) ==
    LET rq == [op |-> op, token |-> NoToken, id |-> 0, body |-> NoBody]
    IN  /\ last' = ErrorReply(rq, 0, err)
        /\ trace' = <<"express.json", "errorHandler", err.name>>
        /\ UNCHANGED <<users, nextUserId, quizzes, nextQuizId, now, slot, notifier>>

ErrorTokens == {NoToken, BadToken, SignToken(2), SignToken(3)}

ErrorCreateBodies ==
    { [title |-> Str_Geo, questions |-> <<Q_two>>],
      [title |-> Str_ab, questions |-> <<Q_two>>] }

NextErrors ==
    \/ \E t \in ErrorTokens, b \in ErrorCreateBodies : CreateResource(t, b)
    \/ \E t \in ErrorTokens, id \in IdParams : GetResourceById(t, id)
    \/ \E b \in LoginBodies : Login(b)
    \/ \E op \in FailingOps, err \in StoreErrors \cup LibraryErrors : StoreRejects(op, err)
    \/ \E op \in {"create", "update", "register", "login"}, err \in BodyParserErrors :
          BodyRejected(op, err)

SpecErrors == Init /\ [][NextErrors]_vars

\* The statuses of the error taxonomy.
Taxonomy == {400, 401, 403, 404, 500}

\* C24: every response that errorHandler sends, and every error response of
\* the pipeline, carries a status of the taxonomy (400, 401, 403, 404, 500).
C24_AsStated ==
    (last.status >= 400 \/ "errorHandler" \in Range(trace)) => last.status \in Taxonomy

----------------------------------------------------------------------------
(* Payloads that differ from a valid one by surrounding whitespace, by the
   letter case of the email or by extra fields *)

Str_padded_ali == <<" ", "a", "l", "i", " ">>
Str_MailA == <<"A", "@", "x", ".", "i", "o">>

SanitizeRegisterBodies ==
    { [username |-> Str_ali, email |-> Str_mailA, password |-> Str_password],
      [username |-> Str_padded_ali, email |-> Str_mailA, password |-> Str_password],
      [username |-> Str_ali, email |-> Str_MailA, password |-> Str_password],
      [username |-> Str_bob, email |-> Str_mailB, password |-> Str_password, role |-> "admin"],
      [username |-> Str_ab, email |-> Str_mailB, password |-> Str_password] }

SanitizeCreateBodies ==
    { [title |-> Str_Geo, questions |-> <<Q_two>>],
      [title |-> <<" ">> \o Str_Geo, questions |-> <<Q_two>>],
      [title |-> Str_Math, description |-> Str_desc \o <<" ">>, questions |-> <<Q_two>>],
      [title |-> Str_Math, questions |-> <<Q_two>>, owner |-> 1],
      [title |-> Str_ab, questions |-> <<Q_two>>] }

NextSanitize ==
    \/ /\ AllIdle
       /\ \/ \E b \in SanitizeRegisterBodies : RegisterBegin("h1", b)
          \/ \E b \in SanitizeCreateBodies : CreateResource(SignToken(1), b)
    \/ RegisterCreate("h1")

SpecSanitize == InitUsers /\ [][NextSanitize]_vars

\* A letter in lower case.
LowerCase(c) ==
    CASE c = "A" -> "a" [] c = "B" -> "b" [] c = "G" -> "g"
      [] c = "M" -> "m" [] c = "P" -> "p" [] c = "Q" -> "q" [] OTHER -> c

\* The value the claim has the Validator pass on: unknown fields removed,
\* the string fields trimmed, the email in lower case (the password is left
\* as it is).
Sanitized(body, known) ==
    [f \in DOMAIN body \cap known |->
        CASE f \in {"username", "title", "description"} -> Trim(body[f])
          [] f = "email" -> [i \in 1..Len(Trim(body[f])) |-> LowerCase(Trim(body[f])[i])]
          [] OTHER -> body[f]]

\* C25: a payload that satisfies its schema once it is trimmed, its email
\* lower-cased and its unknown fields removed is not answered 400 by the
\* Validator (checked on POST /register and POST /resource), and the value
\* register works with is that sanitized payload.
C25_AsStated ==
    /\ (last.op = "register"
        /\ RegisterErrors(Sanitized(last.body, {"username", "email", "password"})) = {}) =>
           /\ ~ValidationFailed(last)
           /\ slot["h1"] # Idle =>
                 slot["h1"].value = Sanitized(last.body, {"username", "email", "password"})
    /\ (last.op = "create"
        /\ CreateResourceErrors(Sanitized(last.body, QuizFields)) = {}) =>
           ~ValidationFailed(last)

\* C26: every 200 response of PUT /resource/:id carries the quiz as the
\* store holds it after the write; an update whose quiz was deleted between
\* its lookup and its write is answered 404, never 200 with no resource.
C26_AsStated ==
    (last.op = "update" /\ last.status = 200) =>
        /\ last.id \in DOMAIN quizzes
        /\ last.data = [kind |-> "quiz",
                        resource |-> PopulateOwner(QuizDoc(quizzes, last.id),
                                                   {"username", "email"})]

----------------------------------------------------------------------------
(* The order of the failure checks on /resource/:id *)

OrderTokens == {NoToken, BadToken, SignToken(1), SignToken(2), SignToken(3)}

OrderCreateBodies ==
    { [title |-> Str_Geo, questions |-> <<Q_two>>],
      [title |-> Str_Math, isPublic |-> TRUE, questions |-> <<Q_two>>] }

\* A payload the update schema accepts and one it rejects.
OrderUpdateBodies == { [title |-> Str_Math], [title |-> Str_ab] }

\* One request at a time: private and public quizzes of one user, then GET, PUT and
\* DELETE by every caller and with every id, the malformed one included.
NextOrder ==
    \/ /\ AllIdle
       /\ \/ \E b \in OrderCreateBodies : CreateResource(SignToken(2), b)
          \/ \E t \in OrderTokens, id \in IdParams : GetResourceById(t, id)
          \/ \E t \in OrderTokens, id \in IdParams, b \in OrderUpdateBodies :
                UpdateResourceBegin("h1", t, id, b)
          \/ \E t \in OrderTokens, id \in IdParams : DeleteResourceBegin("h1", t, id)
    \/ UpdateResourceWrite("h1")
    \/ DeleteResourceWrite("h1")

SpecOrder == Init /\ [][NextOrder]_vars

ItemOps == {"get", "update", "delete"}

\* The status of the first check of the list that fails for a request, 0
\* when none does: authentication, id format, body schema (PUT), existence,
\* then ownership or (GET) visibility.
FirstFailure(rq) ==
    LET known == rq.token.kind = "valid" /\ rq.token.uid \in DOMAIN users
        caller == users[rq.token.uid]
        quiz == quizzes[rq.id]
        mine == quiz.owner = rq.token.uid \/ caller.role = "admin"
    IN  IF ~known THEN 401
        ELSE IF rq.id < 1 THEN 400
        ELSE IF rq.op = "update" /\ UpdateResourceErrors(rq.body) # {} THEN 400
        ELSE IF rq.id \notin DOMAIN quizzes THEN 404
        ELSE IF ~(mine \/ (rq.op = "get" /\ quiz.isPublic)) THEN 403
        ELSE 0

\* C27: on GET, PUT and DELETE /resource/:id the first failing check of the
\* order authentication, id format, body schema (PUT), existence, ownership
\* or visibility decides the status, and a request passing all of them is
\* not refused; an unauthenticated request with a malformed id answers 401,
\* and an authenticated one answers 400 without a quiz lookup.
C27_CheckOrder ==
    [][ (AllIdle /\ last'.op \in ItemOps) =>
          LET rq == [op |-> last'.op, token |-> last'.token,
                     id |-> last'.id, body |-> last'.body]
              first == FirstFailure(rq)
          IN  /\ first # 0 => last'.status = first
              /\ first = 0 => last'.status \in {0, 200}
              /\ (first = 400 /\ rq.id < 1) => "Quiz.findById" \notin Range(trace')
              /\ first = 401 => "validateParams" \notin Range(trace') ]_vars

\* An authenticated request with a malformed id was answered 400 before any
\* lookup.
C27_Witness ==
    /\ last.op = "delete" /\ last.token = SignToken(3) /\ last.id = 0
    /\ last.status = 400
    /\ "Quiz.findById" \notin Range(trace)

----------------------------------------------------------------------------
(* POST /login: what a failed login tells *)

\* What the client sees of a response.
Visible(l) == [status |-> l.status, error |-> l.error, data |-> l.data]

\* The identities whose email is the one of a login payload.
Registered(body) == {u \in DOMAIN users : users[u].email = body.email}

\* The identities a login payload's email and password both match.
Matching(body) == {u \in Registered(body) : users[u].passwordHash = Hash(body.password)}

\* C28: a login with a well-formed payload is answered 401 with one and the
\* same response, "Invalid email or password", when the email matches no
\* identity and when it matches one whose hash the password does not match;
\* it is answered 200 exactly when the email exists and the password
\* matches its hash.
C28_LoginDoesNotReveal ==
    (last.op = "login" /\ LoginErrors(last.body) = {}) =>
        /\ Matching(last.body) = {} =>
              Visible(last) = [status |-> 401, error |-> "Invalid email or password",
                               data |-> NoData]
        /\ last.status = 200 <=> Matching(last.body) # {}
        /\ last.status = 200 => last.user \in Matching(last.body)

\* A login with a registered email and a wrong password was refused.
C28_Witness ==
    /\ last.op = "login"
    /\ LoginErrors(last.body) = {}
    /\ Registered(last.body) # {}
    /\ Matching(last.body) = {}
    /\ last.status = 401

----------------------------------------------------------------------------
(* authenticate: its Credential Store lookups *)

\* The calls of a trace from position i up to the next middleware or
\* controller.
RECURSIVE CallsFrom(_, _)
CallsFrom(tr, i) ==
    IF i > Len(tr) \/ tr[i] \in Controllers \cup {"authenticate", "validateParams",
                                                  "validateBody", "optionalAuth"}
    THEN <<>>
    ELSE <<tr[i]>> \o CallsFrom(tr, i + 1)

\* The number of Credential Store lookups the call of authenticate of the
\* latest step made.
AuthenticateLookups == Count(CallsFrom(trace, 2), "User.findById")

\* C29 as stated: authenticate performs exactly one Credential Store lookup
\* per call.
C29_AsStated == (trace # <<>> /\ trace[1] = "authenticate") => AuthenticateLookups = 1

\* C29: authenticate performs at most one Credential Store lookup per call:
\* exactly one when the bearer token verifies, and none when the header is
\* missing or not a Bearer header or the token is invalid or expired.
C29_OneLookupOnceVerified ==
    (trace # <<>> /\ trace[1] = "authenticate") =>
        AuthenticateLookups = IF last.token.kind = "valid" THEN 1 ELSE 0

\* A call of authenticate with an expired token was answered without a
\* lookup.
C29_Witness ==
    /\ trace # <<>> /\ trace[1] = "authenticate"
    /\ last.token = ExpiredToken
    /\ last.status = 401
    /\ AuthenticateLookups = 0

----------------------------------------------------------------------------
(* asyncHandler: one response for each request *)

RespondTokens == {SignToken(1), SignToken(2)}

RespondCreateBodies == { [title |-> Str_Geo, questions |-> <<Q_two>>] }

RespondUpdateBodies == { [title |-> Str_Math] }

RespondRegisterBodies ==
    { [username |-> Str_ali, email |-> Str_mailA, password |-> Str_password] }

RespondProfileBodies == { [email |-> Str_mailB] }

RespondLoginBodies == { [email |-> Str_mailA, password |-> Str_password] }

RespondIds == {1}

\* Requests of every wrapped controller, served by two handlers at a time.
NextRespond ==
    \/ \E b \in RespondCreateBodies : CreateResource(SignToken(1), b)
    \/ \E t \in RespondTokens, id \in RespondIds : GetResourceById(t, id)
    \/ \E h \in Slots, t \in RespondTokens, id \in RespondIds, b \in RespondUpdateBodies :
          UpdateResourceBegin(h, t, id, b)
    \/ \E h \in Slots : UpdateResourceWrite(h)
    \/ \E h \in Slots, t \in RespondTokens, id \in RespondIds : DeleteResourceBegin(h, t, id)
    \/ \E h \in Slots : DeleteResourceWrite(h)
    \/ \E h \in Slots, b \in RespondRegisterBodies : RegisterBegin(h, b)
    \/ \E h \in Slots : RegisterCreate(h)
    \/ \E h \in Slots, b \in RespondProfileBodies : UpdateProfileBegin(h, SignToken(2), b)
    \/ \E h \in Slots : UpdateProfileCheck(h)
    \/ \E h \in Slots : UpdateProfileWrite(h)
    \/ \E b \in RespondLoginBodies : Login(b)
    \/ \E t \in RespondTokens : GetProfile(t)

\* The store call a suspended handler awaits returns: the handler takes its
\* next step.
SpecRespond ==
    /\ InitUsers
    /\ [][NextRespond]_vars
    /\ \A h \in Slots :
          /\ WF_vars(UpdateResourceWrite(h))
          /\ WF_vars(DeleteResourceWrite(h))
          /\ WF_vars(RegisterCreate(h))
          /\ WF_vars(UpdateProfileCheck(h))
          /\ WF_vars(UpdateProfileWrite(h))

\* The request a response record belongs to.
RequestOf(l) == [op |-> l.op, token |-> l.token, id |-> l.id, body |-> l.body]

\* A step sent a response.
Responded == last'.status # 0

\* A request that enters a controller is answered in that step, by the
\* controller or by errorHandler, or leaves one handler suspended at an
\* await without an answer yet; never both, never neither.
EnterAnswersOrSuspends ==
    /\ (slot' = slot /\ EntersController(trace')) => Responded
    /\ \A h \in Slots :
          (slot[h] = Idle /\ slot'[h] # Idle) =>
              /\ ~Responded
              /\ EntersController(trace')
              /\ slot'[h].rq = RequestOf(last')
              /\ \A g \in Slots \ {h} : slot'[g] = slot[g]

\* A suspended handler that takes a step stays with its request without an
\* answer, or answers its request and ends.
ContinueAnswersAtEnd ==
    \A h \in Slots :
        (slot[h] # Idle /\ slot'[h] # slot[h]) =>
            /\ RequestOf(last') = slot[h].rq
            /\ Responded <=> slot'[h] = Idle
            /\ slot'[h] # Idle => slot'[h].rq = slot[h].rq
            /\ \A g \in Slots \ {h} : slot'[g] = slot[g]

\* C30: every request that enters a controller wrapped in asyncHandler ends
\* with exactly one response, provided its store calls return: the step
\* that enters the controller answers or suspends the handler, a suspended
\* handler answers exactly when it ends, error answers of a controller come
\* from errorHandler without data, and every suspended handler ends.
C30_ExactlyOneResponse ==
    /\ [][EnterAnswersOrSuspends /\ ContinueAnswersAtEnd]_vars
    /\ [](last.status >= 400 => last.data = NoData)
    /\ \A h \in Slots : (slot[h] # Idle) ~> (slot[h] = Idle)

\* A handler suspended at its write lost the race for its unique key: the
\* rejected User.create was passed to errorHandler, which sent the one
\* response of the request.
C30_Witness ==
    /\ last.op = "register"
    /\ last.status = 400
    /\ trace = <<"bcrypt.hash", "User.create">>
    /\ \E h \in Slots : slot[h] = Idle

====
